---- MODULE Spec2Model ----
(***************************************************************************)
(* Neutreeko rules engine (src/src/logic.rs): boards, slide-until-blocked  *)
(* moves, win detection and legal-move generation.                         *)
(***************************************************************************)
EXTENDS Integers, Sequences, FiniteSets, TLC

VARIABLES
    board,           \* the live Board
    prev_board,      \* the Board before the last operation
    last_call,       \* the last operation applied to the board and what it returned
    last_move,       \* the pawn index and direction of the last move the model records
    valid_moves,     \* the list last returned by get_all_valid_directions_and_resulting_boards
    number_moves,    \* successful moves committed so far
    positions_in,    \* the argument of the last aligned_positions call
    aligned_out,     \* what that call returned
    ai,              \* the engine: its kind, its color and its configured depth or difficulty
    ai_result,       \* what the engine's last call computed and returned
    graph,           \* the search graph of the MCTS engine: nodes and edges
    iterations,      \* completed iterations of the running MCTS search
    ui,              \* the App's fields besides board: ai, ai_thinking, selected_pawn, the selections
    inbox,           \* the messages sent to the App and not yet handled
    tasks,           \* the spawned AI tasks that have not yet delivered AiMoveReady
    events           \* user events handled so far

vars == <<board, prev_board, last_call, last_move, valid_moves, number_moves, positions_in, aligned_out,
          ai, ai_result, graph, iterations, ui, inbox, tasks, events>>

rulesvars == <<prev_board, last_call, last_move, valid_moves, number_moves, positions_in, aligned_out>>
aivars == <<ai, ai_result, graph, iterations>>
uivars == <<ui, inbox, tasks, events>>

(***************************************************************************)
(* Bounds of the model.                                                    *)
(***************************************************************************)
\* plies played from the start position
MaxMoves == 3
\* the moves of one random_rollout that the model follows
MaxRollout == 2
\* the plies within which a rollout is asked to be able to end
MaxRank == 5
\* the move count after which training_loop gives a game up as a draw: 255
\* in the source, lowered so that the model's games reach it
MoveLimit == 4
\* the moves of a board, in listing order, that the engines of the trainer
\* choose from
MaxPicks == 3
\* the largest depth a MinMax engine is configured with
MaxDepth == 3
\* the iterations of one MCTS search
MaxIterations == 6
\* the children of the node best_child is asked about
MaxChildren == 3
\* the clicks and selections of the user of the App
MaxEvents == 4
MaxOptions == 3
\* random_board candidates keep their pawns on the first RandCells cells of
\* the board, counted outwards from the corner (0,0)
RandCells == 10

(***************************************************************************)
(* Types.                                                                  *)
(***************************************************************************)
Green == "Green"
Yellow == "Yellow"
None == "None"
Colors == {Green, Yellow}

\* the variants with Left and Right declared the other way round
DirectionsRightFirst == <<"Up", "Down", "Right", "Left", "UpLeft", "UpRight", "DownLeft", "DownRight">>

\* Direction::iter(): the variants in declaration order
Directions == <<"Up", "Down", "Left", "Right", "UpLeft", "UpRight", "DownLeft", "DownRight">>
DirectionSet == {Directions[k] : k \in 1..Len(Directions)}

other_color(color) == IF color = Green THEN Yellow ELSE Green

Position(row, column) == [row |-> row, column |-> column]
Pawn(color, position) == [color |-> color, position |-> position]

\* pawn_index is 0-based as in the code, sequences are 1-based
PawnAt(b, pawn_index) == b.pawns[pawn_index + 1]
PawnIndices(b) == 0..(Len(b.pawns) - 1)

(***************************************************************************)
(* Board::is_valid: every pawn in bounds, no two pawns on one cell.        *)
(***************************************************************************)
\* occupied_positions_values holds the cells seen; an insert fails on a cell
\* already in it, so the board is valid iff the six inserts all succeed
is_valid(b) ==
    LET occupied_positions_values == {b.pawns[k].position : k \in 1..Len(b.pawns)}
    IN /\ \A position \in occupied_positions_values :
             /\ position.row < b.number_of_rows
             /\ position.column < b.number_of_columns
       /\ Cardinality(occupied_positions_values) = Len(b.pawns)

(***************************************************************************)
(* aligned_positions: stable sort by row, then the three tests.            *)
(***************************************************************************)
\* insert p after the last element of the row-sorted s whose row is <= p.row
InsertByRow(s, p) ==
    LET before == SelectSeq(s, LAMBDA q : q.row <= p.row)
        after == SelectSeq(s, LAMBDA q : q.row > p.row)
    IN before \o <<p>> \o after

RECURSIVE SortByRow(_)
SortByRow(s) ==
    IF s = <<>> THEN <<>>
    ELSE InsertByRow(SortByRow(SubSeq(s, 1, Len(s) - 1)), s[Len(s)])

InsertInt(s, x) ==
    SelectSeq(s, LAMBDA y : y <= x) \o <<x>> \o SelectSeq(s, LAMBDA y : y > x)

RECURSIVE SortInts(_)
SortInts(s) ==
    IF s = <<>> THEN <<>>
    ELSE InsertInt(SortInts(SubSeq(s, 1, Len(s) - 1)), s[Len(s)])

\* aligned_positions with the column test on the columns in row order
aligned_positions_unsorted_columns(ps) ==
    LET positions == SortByRow(ps)
        columns == <<positions[1].column, positions[2].column, positions[3].column>>
        rows == <<positions[1].row, positions[2].row, positions[3].row>>
        same_row == rows[1] = rows[2] /\ rows[2] = rows[3]
        same_column == columns[1] = columns[2] /\ columns[2] = columns[3]
        adjacent_rows == (rows[3] - rows[2] = 1) /\ (rows[2] - rows[1] = 1)
        adjacent_columns == (columns[3] - columns[2] = 1) /\ (columns[2] - columns[1] = 1)
        diagonal == /\ adjacent_rows
                    /\ \/ (columns[3] - columns[2] = 1 /\ columns[2] - columns[1] = 1)
                       \/ (columns[3] - columns[2] = -1 /\ columns[2] - columns[1] = -1)
    IN (same_row /\ adjacent_columns) \/ (same_column /\ adjacent_rows) \/ diagonal

aligned_positions(ps) ==
    LET positions == SortByRow(ps)
        columns == <<positions[1].column, positions[2].column, positions[3].column>>
        rows == <<positions[1].row, positions[2].row, positions[3].row>>
        sorted_columns == SortInts(columns)
        same_row == rows[1] = rows[2] /\ rows[2] = rows[3]
        same_column == columns[1] = columns[2] /\ columns[2] = columns[3]
        adjacent_rows == (rows[3] - rows[2] = 1) /\ (rows[2] - rows[1] = 1)
        adjacent_columns == /\ sorted_columns[3] - sorted_columns[2] = 1
                            /\ sorted_columns[2] - sorted_columns[1] = 1
        diagonal == /\ adjacent_rows
                    /\ \/ (columns[3] - columns[2] = 1 /\ columns[2] - columns[1] = 1)
                       \/ (columns[3] - columns[2] = -1 /\ columns[2] - columns[1] = -1)
    IN (same_row /\ adjacent_columns) \/ (same_column /\ adjacent_rows) \/ diagonal

(***************************************************************************)
(* Board::winner: None on an invalid board, Green is tested before Yellow. *)
(***************************************************************************)
PositionsOf(b, color) ==
    LET own == SelectSeq(b.pawns, LAMBDA pawn : pawn.color = color)
    IN [k \in 1..Len(own) |-> own[k].position]

\* winner with the test of the Green pawns only
winner_green_only(b) ==
    IF ~is_valid(b) THEN None
    ELSE IF aligned_positions(PositionsOf(b, Green)) THEN Green
    ELSE None

\* winner with Yellow tested before Green
winner_yellow_first(b) ==
    IF ~is_valid(b) THEN None
    ELSE IF aligned_positions(PositionsOf(b, Yellow)) THEN Yellow
    ELSE IF aligned_positions(PositionsOf(b, Green)) THEN Green
    ELSE None

winner(b) ==
    IF ~is_valid(b) THEN None
    ELSE IF aligned_positions(PositionsOf(b, Green)) THEN Green
    ELSE IF aligned_positions(PositionsOf(b, Yellow)) THEN Yellow
    ELSE None

(***************************************************************************)
(* Board::move_pawn: one step, undone when it leaves the board or lands on *)
(* another pawn.                                                           *)
(***************************************************************************)
\* the write of the new position as a push of a pawn of the same color
WithPositionPushed(b, pawn_index, position) ==
    [b EXCEPT !.pawns = Append(@, Pawn(PawnAt(b, pawn_index).color, position))]

WithPosition(b, pawn_index, position) ==
    [b EXCEPT !.pawns[pawn_index + 1].position = position]

\* move_pawn without the undo of a step that lands on another pawn
move_pawn_keeps_collision(b, pawn_index, row_increment, column_increment) ==
    LET init_position == PawnAt(b, pawn_index).position
        final_row == init_position.row + row_increment
        final_column == init_position.column + column_increment
        moved == WithPosition(b, pawn_index, Position(final_row, final_column))
    IN IF \/ final_row < 0 \/ final_row >= b.number_of_rows
          \/ final_column < 0 \/ final_column >= b.number_of_columns
       THEN [board |-> b, ok |-> FALSE]
       ELSE [board |-> moved, ok |-> is_valid(moved)]

\* move_pawn without the collision test: only the edge of the board stops a pawn
move_pawn_through_pawns(b, pawn_index, row_increment, column_increment) ==
    LET init_position == PawnAt(b, pawn_index).position
        final_row == init_position.row + row_increment
        final_column == init_position.column + column_increment
        moved == WithPosition(b, pawn_index, Position(final_row, final_column))
    IN IF \/ final_row < 0 \/ final_row >= b.number_of_rows
          \/ final_column < 0 \/ final_column >= b.number_of_columns
       THEN [board |-> b, ok |-> FALSE]
       ELSE [board |-> moved, ok |-> TRUE]

move_pawn(b, pawn_index, row_increment, column_increment) ==
    LET init_position == PawnAt(b, pawn_index).position
        final_row == init_position.row + row_increment
        final_column == init_position.column + column_increment
        moved == WithPosition(b, pawn_index, Position(final_row, final_column))
    IN IF \/ final_row < 0 \/ final_row >= b.number_of_rows
          \/ final_column < 0 \/ final_column >= b.number_of_columns
       THEN [board |-> b, ok |-> FALSE]
       ELSE IF is_valid(moved)
            THEN [board |-> moved, ok |-> TRUE]
            ELSE [board |-> b, ok |-> FALSE]

(***************************************************************************)
(* Board::move_pawn_until_blocked.                                         *)
(***************************************************************************)
RowIncrement(direction) ==
    CASE direction \in {"Up", "UpLeft", "UpRight"} -> -1
      [] direction \in {"Down", "DownLeft", "DownRight"} -> 1
      [] OTHER -> 0

ColumnIncrement(direction) ==
    CASE direction \in {"Left", "UpLeft", "DownLeft"} -> -1
      [] direction \in {"Right", "UpRight", "DownRight"} -> 1
      [] OTHER -> 0

\* the loop left after its first successful step
SlideLoopOneStep(b, pawn_index, row_increment, column_increment) ==
    LET step == move_pawn(b, pawn_index, row_increment, column_increment)
    IN [board |-> step.board, has_moved |-> step.ok]

\* the loop of move_pawn calls: the board as the first failing step leaves it
RECURSIVE SlideLoop(_, _, _, _)
SlideLoop(b, pawn_index, row_increment, column_increment) ==
    LET step == move_pawn(b, pawn_index, row_increment, column_increment)
    IN IF step.ok
       THEN [board |-> SlideLoop(step.board, pawn_index, row_increment, column_increment).board,
             has_moved |-> TRUE]
       ELSE [board |-> step.board, has_moved |-> FALSE]

\* the bookkeeping without the win test: the turn always passes
AfterSlideNoWinTest(b) ==
    [b EXCEPT !.next_player = IF b.next_player = None THEN None
                              ELSE other_color(b.next_player)]

\* the bookkeeping with the win test on the board before the move only
AfterSlideEndsGame(b) == [b EXCEPT !.next_player = None]

\* the bookkeeping after the loop: a win ends the game, otherwise the turn passes
AfterSlide(b) ==
    IF winner(b) # None
    THEN [b EXCEPT !.next_player = None]
    ELSE [b EXCEPT !.next_player = IF b.next_player = None THEN None
                                   ELSE other_color(b.next_player)]

\* move_pawn_until_blocked without the test of whose turn it is
move_pawn_until_blocked_any_turn(b, pawn_index, direction) ==
    LET slid == SlideLoop(b, pawn_index, RowIncrement(direction), ColumnIncrement(direction))
    IN IF slid.has_moved
       THEN [board |-> AfterSlide(slid.board), ok |-> TRUE]
       ELSE [board |-> slid.board, ok |-> FALSE]

move_pawn_until_blocked(b, pawn_index, direction) ==
    IF b.next_player = None THEN [board |-> b, ok |-> FALSE]
    ELSE IF PawnAt(b, pawn_index).color # b.next_player THEN [board |-> b, ok |-> FALSE]
    ELSE LET slid == SlideLoop(b, pawn_index, RowIncrement(direction), ColumnIncrement(direction))
         IN IF slid.has_moved
            THEN [board |-> AfterSlide(slid.board), ok |-> TRUE]
            ELSE [board |-> slid.board, ok |-> FALSE]

(***************************************************************************)
(* Move generation.                                                        *)
(***************************************************************************)
RECURSIVE DirectionsFrom(_, _, _)
DirectionsFrom(b, pawn_index, k) ==
    IF k > Len(Directions) THEN <<>>
    ELSE LET new_board == move_pawn_until_blocked(b, pawn_index, Directions[k])
         IN (IF new_board.ok THEN <<[direction |-> Directions[k], board |-> new_board.board]>>
             ELSE <<>>)
            \o DirectionsFrom(b, pawn_index, k + 1)

get_valid_directions_and_resulting_boards(b, pawn_index) ==
    DirectionsFrom(b, pawn_index, 1)

RECURSIVE AllFrom(_, _)
AllFrom(b, pawn_index) ==
    IF pawn_index >= Len(b.pawns) THEN <<>>
    ELSE LET directions ==
                 IF PawnAt(b, pawn_index).color # b.next_player THEN <<>>
                 ELSE get_valid_directions_and_resulting_boards(b, pawn_index)
         IN [k \in 1..Len(directions) |->
                [pawn_index |-> pawn_index,
                 direction |-> directions[k].direction,
                 board |-> directions[k].board]]
            \o AllFrom(b, pawn_index + 1)

\* the listing with the test of the color turned round: the pawns of the
\* player to move are skipped
RECURSIVE AllFromWaiting(_, _)
AllFromWaiting(b, pawn_index) ==
    IF pawn_index >= Len(b.pawns) THEN <<>>
    ELSE LET directions ==
                 IF PawnAt(b, pawn_index).color = b.next_player THEN <<>>
                 ELSE get_valid_directions_and_resulting_boards(b, pawn_index)
         IN [k \in 1..Len(directions) |->
                [pawn_index |-> pawn_index,
                 direction |-> directions[k].direction,
                 board |-> directions[k].board]]
            \o AllFromWaiting(b, pawn_index + 1)

get_all_of_waiting_player(b) == AllFromWaiting(b, 0)

get_all_valid_directions_and_resulting_boards(b) == AllFrom(b, 0)

(***************************************************************************)
(* Board::default_new.                                                     *)
(***************************************************************************)
NumberOfRows == 5
NumberOfColumns == 5

\* the start position with the Yellow pawn of row 1 one column to the left
default_new_shifted ==
    [number_of_rows |-> NumberOfRows,
     number_of_columns |-> NumberOfColumns,
     pawns |-> <<Pawn(Green, Position(0, 1)), Pawn(Green, Position(0, 3)),
                 Pawn(Green, Position(3, 2)), Pawn(Yellow, Position(1, 1)),
                 Pawn(Yellow, Position(4, 1)), Pawn(Yellow, Position(4, 3))>>,
     next_player |-> Green]

default_new ==
    [number_of_rows |-> NumberOfRows,
     number_of_columns |-> NumberOfColumns,
     pawns |-> <<Pawn(Green, Position(0, 1)), Pawn(Green, Position(0, 3)),
                 Pawn(Green, Position(3, 2)), Pawn(Yellow, Position(1, 2)),
                 Pawn(Yellow, Position(4, 1)), Pawn(Yellow, Position(4, 3))>>,
     next_player |-> Green]

(***************************************************************************)
(* Board::random_board: six pawns on random cells, Green to move; the loop *)
(* keeps the first candidate that is valid and has no winner.  Candidates  *)
(* are bounded to the first RandCells cells of the board, the ring of      *)
(* cells at distance 0 from the corner first, then distance 1, and so on.  *)
(* The pawns of a color are drawn in ascending cell order; a candidate may  *)
(* put a Green and a Yellow pawn on one cell, which is_valid rejects.       *)
(***************************************************************************)
AllCells == {Position(r, c) : r \in 0..(NumberOfRows - 1), c \in 0..(NumberOfColumns - 1)}

Ring(p) == IF p.row > p.column THEN p.row ELSE p.column
\* rank of a cell: rings outwards, inside a ring down the last column and then along the last row
CellRank(p) ==
    Ring(p) * Ring(p) + (IF p.column = Ring(p) THEN p.row ELSE Ring(p) + 1 + p.column)
RandCellSet == {p \in AllCells : CellRank(p) < RandCells}

CellCode(p) == p.row * NumberOfColumns + p.column

RandomCandidates ==
    {[number_of_rows |-> NumberOfRows,
      number_of_columns |-> NumberOfColumns,
      pawns |-> <<Pawn(Green, t[1]), Pawn(Green, t[2]), Pawn(Green, t[3]),
                  Pawn(Yellow, t[4]), Pawn(Yellow, t[5]), Pawn(Yellow, t[6])>>,
      next_player |-> Green] :
        t \in {u \in [1..6 -> RandCellSet] :
                  /\ CellCode(u[1]) < CellCode(u[2]) /\ CellCode(u[2]) < CellCode(u[3])
                  /\ CellCode(u[4]) < CellCode(u[5]) /\ CellCode(u[5]) < CellCode(u[6])}}

(***************************************************************************)
(* State machine.                                                          *)
(***************************************************************************)
Call(op, returned) == [op |-> op, returned |-> returned]
Move(pawn_index, direction) == [pawn_index |-> pawn_index, direction |-> direction]

NoCall == Call("none", FALSE)
NoMove == Move(-1, "none")

\* the moves of a list of moves, of untried actions or of edges
MovesOf(s) == {Move(s[k].pawn_index, s[k].direction) : k \in 1..Len(s)}

\* no engine exists, nothing is searched
NoAi == [kind |-> "None", color |-> None, depth |-> 0]
NoResult == [kind |-> "idle"]
EmptyGraph == [nodes |-> <<>>, edges |-> <<>>]
AiIdle ==
    /\ ai = NoAi
    /\ ai_result = NoResult
    /\ graph = EmptyGraph
    /\ iterations = 0

\* no App exists
NoUi == [ai_thinking |-> FALSE]
UiIdle ==
    /\ ui = NoUi
    /\ inbox = <<>>
    /\ tasks = <<>>
    /\ events = 0

\* no rules call is recorded
RulesIdle ==
    /\ prev_board = board
    /\ last_call = NoCall
    /\ last_move = NoMove
    /\ valid_moves = <<>>
    /\ number_moves = 0
    /\ positions_in = <<>>
    /\ aligned_out = FALSE

\* a call of move_pawn_until_blocked on the live board; a failed call is
\* recorded with its arguments only where recorded_failure keeps them
Commit(pawn_index, direction, recorded_failure) ==
    LET result == move_pawn_until_blocked(board, pawn_index, direction)
    IN /\ board' = result.board
       /\ prev_board' = board
       /\ last_call' = Call("move", result.ok)
       /\ last_move' = IF result.ok THEN Move(pawn_index, direction) ELSE recorded_failure
       /\ valid_moves' = <<>>
       /\ number_moves' = IF result.ok THEN number_moves + 1 ELSE number_moves
       /\ UNCHANGED <<positions_in, aligned_out, aivars, uivars>>

\* a call of get_all_valid_directions_and_resulting_boards on the live board
List ==
    /\ valid_moves' = get_all_valid_directions_and_resulting_boards(board)
    /\ prev_board' = board
    /\ last_call' = Call("list", TRUE)
    /\ last_move' = NoMove
    /\ UNCHANGED <<board, number_moves, positions_in, aligned_out, aivars, uivars>>

(***************************************************************************)
(* Spec: a game from the start position, any caller, any calls.            *)
(***************************************************************************)
Init ==
    /\ board = default_new
    /\ prev_board = default_new
    /\ last_call = NoCall
    /\ last_move = NoMove
    /\ valid_moves = <<>>
    /\ number_moves = 0
    /\ positions_in = <<>>
    /\ aligned_out = FALSE
    /\ AiIdle
    /\ UiIdle

CommitMove ==
    /\ number_moves < MaxMoves
    /\ \E pawn_index \in PawnIndices(board), direction \in DirectionSet :
          Commit(pawn_index, direction, NoMove)

ListMoves ==
    /\ last_call.op # "list"
    /\ List

Next == CommitMove \/ ListMoves

Spec == Init /\ [][Next]_vars

(***************************************************************************)
(* SpecBoards: random_board, then one call on the board it returned.       *)
(***************************************************************************)
InitBoards ==
    /\ board \in RandomCandidates
    /\ prev_board = board
    /\ last_call = Call("candidate", FALSE)
    /\ last_move = NoMove
    /\ valid_moves = <<>>
    /\ number_moves = 0
    /\ positions_in = <<>>
    /\ aligned_out = FALSE
    /\ AiIdle
    /\ UiIdle

\* one turn of the loop of random_board: the test that keeps or drops the candidate
RandomBoardTest ==
    /\ last_call.op = "candidate"
    /\ last_call' = Call("random_board",
                         [is_valid |-> is_valid(board),
                          winner |-> IF is_valid(board) THEN winner(board) ELSE None])
    /\ prev_board' = board
    /\ UNCHANGED <<board, last_move, valid_moves, number_moves, positions_in, aligned_out, aivars, uivars>>

Kept == /\ last_call.op = "random_board"
        /\ last_call.returned.is_valid
        /\ last_call.returned.winner = None

CommitOnBoard ==
    /\ Kept
    /\ \E pawn_index \in PawnIndices(board), direction \in DirectionSet :
          Commit(pawn_index, direction, Move(pawn_index, direction))

ListOnBoard ==
    /\ Kept
    /\ List

NextBoards == RandomBoardTest \/ CommitOnBoard \/ ListOnBoard

SpecBoards == InitBoards /\ [][NextBoards]_vars

(***************************************************************************)
(* SpecAlign: aligned_positions on any three distinct cells, in any order. *)
(***************************************************************************)
InitAlign ==
    /\ positions_in \in {t \in [1..3 -> AllCells] : t[1] # t[2] /\ t[1] # t[3] /\ t[2] # t[3]}
    /\ aligned_out = FALSE
    /\ last_call = NoCall
    /\ last_move = NoMove
    /\ board = default_new
    /\ prev_board = default_new
    /\ valid_moves = <<>>
    /\ number_moves = 0
    /\ AiIdle
    /\ UiIdle

Align ==
    /\ last_call = NoCall
    /\ aligned_out' = aligned_positions(positions_in)
    /\ last_call' = Call("aligned_positions", TRUE)
    /\ UNCHANGED <<positions_in, board, prev_board, last_move, valid_moves, number_moves, aivars, uivars>>

NextAlign == Align

SpecAlign == InitAlign /\ [][NextAlign]_vars

(***************************************************************************)
(* The rules as stated, independent of the code above.                     *)
(***************************************************************************)
\* the step of a direction: rows grow downwards, columns to the right
StepOf(direction) ==
    CASE direction = "Up" -> [row |-> -1, column |-> 0]
      [] direction = "Down" -> [row |-> 1, column |-> 0]
      [] direction = "Left" -> [row |-> 0, column |-> -1]
      [] direction = "Right" -> [row |-> 0, column |-> 1]
      [] direction = "UpLeft" -> [row |-> -1, column |-> -1]
      [] direction = "UpRight" -> [row |-> -1, column |-> 1]
      [] direction = "DownLeft" -> [row |-> 1, column |-> -1]
      [] direction = "DownRight" -> [row |-> 1, column |-> 1]

CellAt(start, direction, k) ==
    Position(start.row + k * StepOf(direction).row, start.column + k * StepOf(direction).column)

InBounds(b, cell) ==
    /\ cell.row >= 0 /\ cell.row < b.number_of_rows
    /\ cell.column >= 0 /\ cell.column < b.number_of_columns

Occupied(b, cell) == \E i \in PawnIndices(b) : PawnAt(b, i).position = cell

FreeCell(b, cell) == InBounds(b, cell) /\ ~Occupied(b, cell)

\* the largest k such that the cells 1..k from start in the direction are all free
FreePath(b, start, direction, k) == \A j \in 1..k : FreeCell(b, CellAt(start, direction, j))
Farthest(b, start, direction) ==
    CHOOSE k \in 0..(b.number_of_rows + b.number_of_columns) :
        FreePath(b, start, direction, k) /\ ~FreePath(b, start, direction, k + 1)

ValidBoard(b) ==
    /\ \A i \in PawnIndices(b) : InBounds(b, PawnAt(b, i).position)
    /\ \A i, j \in PawnIndices(b) : i # j => PawnAt(b, i).position # PawnAt(b, j).position

\* three cells are aligned when they are s, s + d, s + 2d for a step d along
\* a row, a column or a diagonal
LineSteps == {[row |-> 0, column |-> 1], [row |-> 1, column |-> 0],
              [row |-> 1, column |-> 1], [row |-> 1, column |-> -1]}
AlignedCells(cells) ==
    \E s \in cells, d \in LineSteps :
        cells = {Position(s.row + k * d.row, s.column + k * d.column) : k \in 0..2}

CellsOf(b, color) == {PawnAt(b, i).position : i \in {j \in PawnIndices(b) : PawnAt(b, j).color = color}}
ColorAligned(b, color) == Cardinality(CellsOf(b, color)) = 3 /\ AlignedCells(CellsOf(b, color))

(***************************************************************************)
(* Claims.                                                                 *)
(***************************************************************************)
\* C1: a slide by the player to move either fails and leaves the pawn on its
\* cell, or succeeds and leaves it on the farthest cell of the free path in
\* the direction; sliding the same pawn again the same way then fails.
C1_SlideToFarthest ==
    (last_call.op = "move" /\ last_move # NoMove
        /\ PawnAt(prev_board, last_move.pawn_index).color = prev_board.next_player) =>
    LET p == last_move.pawn_index
        d == last_move.direction
        start == PawnAt(prev_board, p).position
        k == Farthest(prev_board, start, d)
    IN /\ \/ (~last_call.returned /\ PawnAt(board, p).position = start)
          \/ (last_call.returned /\ k >= 1 /\ PawnAt(board, p).position = CellAt(start, d, k))
       /\ ~move_pawn_until_blocked(board, p, d).ok

\* a slide of two or more cells that another pawn stopped
C1_Witness ==
    /\ last_call.op = "move" /\ last_call.returned
    /\ PawnAt(board, last_move.pawn_index).position
           = CellAt(PawnAt(prev_board, last_move.pawn_index).position, last_move.direction, 2)
    /\ Occupied(board, CellAt(PawnAt(prev_board, last_move.pawn_index).position, last_move.direction, 3))

\* C2: after a successful move by color c, if the position holds an alignment
\* the game is over and winner() is c; otherwise the other color is to move.
C2_MoverWinsOrTurnPasses ==
    (last_call.op = "move" /\ last_call.returned) =>
    LET c == prev_board.next_player
    IN /\ c \in Colors
       /\ IF ColorAligned(board, Green) \/ ColorAligned(board, Yellow)
          THEN board.next_player = None /\ winner(board) = c
          ELSE board.next_player \in Colors \ {c}

\* Green wins by its move
C2_Witness ==
    /\ last_call.op = "move" /\ last_call.returned
    /\ prev_board.next_player = Green
    /\ ColorAligned(board, Green)
    /\ board.next_player = None

\* C3: a call that returns false leaves every pawn and next_player as they were.
C3_FailureLeavesBoard ==
    (last_call.op = "move" /\ ~last_call.returned) => board = prev_board

\* a failed call in mid-game, Yellow to move
C3_Witness ==
    /\ last_call.op = "move" /\ ~last_call.returned
    /\ number_moves > 0
    /\ board.next_player = Yellow

\* C4: in a game from the start position next_player is None exactly when
\* winner() is Some.
C4_NoneIffWinner ==
    (board.next_player = None) <=> (winner(board) # None)

\* a finished game
C4_Witness ==
    /\ board.next_player = None
    /\ last_call.op = "move" /\ last_call.returned

\* C5: every board in the list of legal moves is valid, and so is every board
\* of a game from the start position.
C5_MovesKeepBoardValid ==
    /\ ValidBoard(board)
    /\ last_call.op = "list" =>
          \A k \in 1..Len(valid_moves) : ValidBoard(valid_moves[k].board)

\* the legal moves of a board reached by play, one of them a slide of three cells
C5_Witness ==
    /\ last_call.op = "list" /\ number_moves > 0
    /\ \E k \in 1..Len(valid_moves) :
          LET start == PawnAt(board, valid_moves[k].pawn_index).position
          IN PawnAt(valid_moves[k].board, valid_moves[k].pawn_index).position
                 = CellAt(start, valid_moves[k].direction, 3)

\* C6 as stated: on a valid board winner() is Some(c) exactly when the pawns
\* of c are aligned, for each color c, and None when neither color is aligned.
C6_WinnerIffAligned ==
    (last_call.op = "random_board" /\ last_call.returned.is_valid) =>
        /\ \A c \in Colors : (last_call.returned.winner = c) <=> ColorAligned(board, c)
        /\ (~ColorAligned(board, Green) /\ ~ColorAligned(board, Yellow))
               => last_call.returned.winner = None

\* C6 amended: on a valid board winner() is Some(Green) exactly when Green is
\* aligned, Some(Yellow) exactly when Yellow is aligned and Green is not, and
\* None exactly when neither color is aligned.
C6_WinnerGreenFirst ==
    (last_call.op = "random_board" /\ last_call.returned.is_valid) =>
        /\ (last_call.returned.winner = Green) <=> ColorAligned(board, Green)
        /\ (last_call.returned.winner = Yellow)
               <=> (ColorAligned(board, Yellow) /\ ~ColorAligned(board, Green))
        /\ (last_call.returned.winner = None)
               <=> (~ColorAligned(board, Green) /\ ~ColorAligned(board, Yellow))

\* a valid candidate with both colors aligned
C6_Witness ==
    /\ last_call.op = "random_board" /\ last_call.returned.is_valid
    /\ ColorAligned(board, Green) /\ ColorAligned(board, Yellow)
    /\ last_call.returned.winner = Green

\* C7: the alignment test gives the same answer for every order of the three
\* positions and after a reflection of all of them across the horizontal
\* axis, the vertical axis or the main diagonal.
Permutations3 == {f \in [1..3 -> 1..3] : {f[1], f[2], f[3]} = 1..3}
Permuted(ps, f) == [k \in 1..3 |-> ps[f[k]]]
FlipRows(ps) == [k \in 1..3 |-> Position(NumberOfRows - 1 - ps[k].row, ps[k].column)]
FlipColumns(ps) == [k \in 1..3 |-> Position(ps[k].row, NumberOfColumns - 1 - ps[k].column)]
Transposed(ps) == [k \in 1..3 |-> Position(ps[k].column, ps[k].row)]

C7_AlignmentSymmetric ==
    last_call.op = "aligned_positions" =>
        /\ \A f \in Permutations3 : aligned_positions(Permuted(positions_in, f)) = aligned_out
        /\ aligned_positions(FlipRows(positions_in)) = aligned_out
        /\ aligned_positions(FlipColumns(positions_in)) = aligned_out
        /\ aligned_positions(Transposed(positions_in)) = aligned_out

\* three cells of one row, aligned, given with the middle one last
C7_Witness ==
    /\ last_call.op = "aligned_positions" /\ aligned_out
    /\ positions_in[1].row = positions_in[2].row
    /\ positions_in[1].column < positions_in[3].column
    /\ positions_in[3].column < positions_in[2].column

\* C8: the list of legal moves is exactly the successful moves of the pawns
\* of the player to move, each once, by pawn index and then in the order Up,
\* Down, Left, Right, UpLeft, UpRight, DownLeft, DownRight, each with the
\* board the move gives; the board itself is not modified.
StatedOrder == <<"Up", "Down", "Left", "Right", "UpLeft", "UpRight", "DownLeft", "DownRight">>
StatedMoves(b) ==
    LET every == [n \in 1..(Len(b.pawns) * 8) |->
                     Move((n - 1) \div 8, StatedOrder[((n - 1) % 8) + 1])]
        legal == SelectSeq(every, LAMBDA m :
                     /\ PawnAt(b, m.pawn_index).color = b.next_player
                     /\ move_pawn_until_blocked(b, m.pawn_index, m.direction).ok)
    IN [k \in 1..Len(legal) |->
           [pawn_index |-> legal[k].pawn_index,
            direction |-> legal[k].direction,
            board |-> move_pawn_until_blocked(b, legal[k].pawn_index, legal[k].direction).board]]

C8_ListIsLegalMovesInOrder ==
    last_call.op = "list" =>
        /\ valid_moves = StatedMoves(prev_board)
        /\ board = prev_board

\* a list with moves to the left and to the right of one pawn
C8_Witness ==
    /\ last_call.op = "list"
    /\ \E j, k \in 1..Len(valid_moves) :
          /\ valid_moves[j].pawn_index = valid_moves[k].pawn_index
          /\ valid_moves[j].direction = "Left"
          /\ valid_moves[k].direction = "Right"

\* C9: a board whose next_player is None has no legal moves, for the whole
\* board and for each pawn, and no move is committed on it.
C9_NoMovesAfterEnd ==
    /\ (last_call.op = "list" /\ prev_board.next_player = None) => valid_moves = <<>>
    /\ board.next_player = None =>
          \A i \in PawnIndices(board) :
              get_valid_directions_and_resulting_boards(board, i) = <<>>
    /\ (last_call.op = "move" /\ prev_board.next_player = None) =>
          (~last_call.returned /\ board = prev_board)

\* the legal moves of a finished game were asked for
C9_Witness ==
    /\ last_call.op = "list"
    /\ prev_board.next_player = None
    /\ winner(prev_board) = Yellow

\* C10: from the start position (Green on (0,1), (0,3), (3,2), Yellow on
\* (1,2), (4,1), (4,3), Green to move) the list of legal moves is not empty,
\* has no (pawn, direction) pair twice, and no move in it gives a winner.
StatedStart ==
    [number_of_rows |-> 5, number_of_columns |-> 5,
     pawns |-> <<Pawn(Green, Position(0, 1)), Pawn(Green, Position(0, 3)),
                 Pawn(Green, Position(3, 2)), Pawn(Yellow, Position(1, 2)),
                 Pawn(Yellow, Position(4, 1)), Pawn(Yellow, Position(4, 3))>>,
     next_player |-> Green]

C10_OpeningMoves ==
    /\ number_moves = 0 => board = StatedStart
    /\ (last_call.op = "list" /\ number_moves = 0) =>
          /\ Len(valid_moves) > 0
          /\ \A j, k \in 1..Len(valid_moves) :
                (/\ valid_moves[j].pawn_index = valid_moves[k].pawn_index
                 /\ valid_moves[j].direction = valid_moves[k].direction) => j = k
          /\ \A k \in 1..Len(valid_moves) :
                /\ ~ColorAligned(valid_moves[k].board, Green)
                /\ ~ColorAligned(valid_moves[k].board, Yellow)
                /\ winner(valid_moves[k].board) = None

\* the opening moves were listed
C10_Witness ==
    /\ last_call.op = "list" /\ number_moves = 0
    /\ Len(valid_moves) > 8

(***************************************************************************)
(* The engines (src/src/ai/mod.rs): what every engine shares.              *)
(***************************************************************************)
\* a value computed once and used by name in Body
With(value, Body(_)) == Body(value)

\* an f32 weight or score, kept as the exact quotient num / den
Ratio(num, den) == [num |-> num, den |-> den]
Greater(a, b) == a.num * b.den > b.num * a.den
Same(a, b) == a.num * b.den = b.num * a.den

\* an entry of the Vec<(f32, usize, Direction)> of give_all_options
Option(weight, pawn_index, direction) ==
    [weight |-> weight, pawn_index |-> pawn_index, direction |-> direction]

\* the loop of best_move_from_vec that keeps what it found when the best
\* score rises
RECURSIVE best_moves_found_never_reset(_, _, _, _)
best_moves_found_never_reset(moves, k, best_score, found) ==
    IF k > Len(moves) THEN found
    ELSE IF Greater(moves[k].weight, best_score) \/ Same(moves[k].weight, best_score)
         THEN best_moves_found_never_reset(
                  moves, k + 1, moves[k].weight,
                  Append(found, Move(moves[k].pawn_index, moves[k].direction)))
         ELSE best_moves_found_never_reset(moves, k + 1, best_score, found)

\* the loop of best_move_from_vec: the moves whose weight is the largest,
\* starting from a best score of 0.0
RECURSIVE best_moves_found(_, _, _, _)
best_moves_found(moves, k, best_score, found) ==
    IF k > Len(moves) THEN found
    ELSE IF Greater(moves[k].weight, best_score)
         THEN best_moves_found(moves, k + 1, moves[k].weight,
                               <<Move(moves[k].pawn_index, moves[k].direction)>>)
         ELSE IF Same(moves[k].weight, best_score)
              THEN best_moves_found(moves, k + 1, best_score,
                                    Append(found, Move(moves[k].pawn_index, moves[k].direction)))
              ELSE best_moves_found(moves, k + 1, best_score, found)

\* what a call of the engine left: kind is "None" or "Some" as ai_play
\* returns them, or "panic" when the call aborted
Result(kind, move, searched, evaluation) ==
    [kind |-> kind, move |-> move, searched |-> searched, evaluation |-> evaluation]

NoEvaluation == [board_eval |-> Ratio(0, 1), minmax |-> <<>>, options |-> <<>>]

\* best_move_from_vec on the options of a finished search: indexing the
\* empty list of best moves aborts; O::random() picks any of a non-empty one
best_move_from_vec(evaluation) ==
    With(best_moves_found(evaluation.options, 1, Ratio(0, 1), <<>>),
         LAMBDA found :
             IF found = <<>> THEN {Result("panic", NoMove, TRUE, evaluation)}
             ELSE {Result("Some", found[i], TRUE, evaluation) : i \in 1..Len(found)})

(***************************************************************************)
(* The MinMax engine (src/src/ai/minmax.rs).                               *)
(***************************************************************************)
\* score_board with the depth dropped: every win scores 100, every loss -100
score_of_flat(winner_color, color, depth) ==
    IF winner_color = color THEN 100
    ELSE IF winner_color # None THEN -100
    ELSE 0

\* the match of score_board on the winner of the node's board
score_of(winner_color, color, depth) ==
    IF winner_color = color THEN 100 - depth
    ELSE IF winner_color # None THEN -100 + depth
    ELSE 0

score_board(b, color, depth) == score_of(winner(b), color, depth)

MinMax(color, depth) == [kind |-> "MinMax", color |-> color, depth |-> depth]

color_at_this_depth(color, current_depth) ==
    IF current_depth % 2 = 0 THEN color ELSE other_color(color)

\* the (direction, board) pairs of one pawn as edges of that pawn
EdgesOf(directions, pawn_index) ==
    [k \in 1..Len(directions) |->
        [pawn_index |-> pawn_index,
         direction |-> directions[k].direction,
         board |-> directions[k].board]]

\* the children of a node, the pawns of color c filtered out before they
\* are numbered
RECURSIVE ChildrenFromFiltered(_, _, _, _)
ChildrenFromFiltered(b, c, pawn_index, seen) ==
    IF pawn_index >= Len(b.pawns) THEN <<>>
    ELSE IF PawnAt(b, pawn_index).color # c
         THEN ChildrenFromFiltered(b, c, pawn_index + 1, seen)
         ELSE EdgesOf(get_valid_directions_and_resulting_boards(b, pawn_index), seen)
              \o ChildrenFromFiltered(b, c, pawn_index + 1, seen + 1)

ChildrenFromRenumbered(b, c, pawn_index) == ChildrenFromFiltered(b, c, pawn_index, 0)

\* the children added under a node for the pawns of color c, in the order
\* they are added: pawn by pawn, direction by direction
RECURSIVE ChildrenFrom(_, _, _)
ChildrenFrom(b, c, pawn_index) ==
    IF pawn_index >= Len(b.pawns) THEN <<>>
    ELSE EdgesOf(IF PawnAt(b, pawn_index).color # c THEN <<>>
                 ELSE get_valid_directions_and_resulting_boards(b, pawn_index),
                 pawn_index)
         \o ChildrenFrom(b, c, pawn_index + 1)

\* the edges added under the node of board b at depth current_depth by the
\* expansion loop of give_all_options: none at the configured depth, none
\* under a won board
EdgesAdded(m, b, current_depth) ==
    IF current_depth >= m.depth \/ winner(b) # None THEN <<>>
    ELSE ChildrenFrom(b, color_at_this_depth(m.color, current_depth), 0)

Reverse(s) == [k \in 1..Len(s) |-> s[Len(s) + 1 - k]]

\* graph.edges(node): petgraph walks the outgoing edges latest first
edges(m, b, current_depth) == Reverse(EdgesAdded(m, b, current_depth))

\* isize::MIN and isize::MAX: only compared with scores, never added to
IsizeMin == -1000000
IsizeMax == 1000000

Max(a, b) == IF a >= b THEN a ELSE b
Min(a, b) == IF a <= b THEN a ELSE b

\* a cut-off with the comparison turned round
cut_off_reversed(alpha, beta) == alpha <= beta

\* the test that ends the loop over the siblings
cut_off(alpha, beta) == beta <= alpha

\* what one sibling's score makes of value, alpha and beta
NewValue(value, score, maximizing_player) ==
    IF maximizing_player THEN Max(value, score) ELSE Min(value, score)
NewAlpha(alpha, new_value, maximizing_player) ==
    IF maximizing_player THEN Max(alpha, new_value) ELSE alpha
NewBeta(beta, new_value, maximizing_player) ==
    IF maximizing_player THEN beta ELSE Min(beta, new_value)

\* minmax_score on the node of board b at depth current_depth; LoopEdges is
\* its loop over es from the k-th edge on
RECURSIVE minmax_score(_, _, _, _, _, _, _)
RECURSIVE LoopEdges(_, _, _, _, _, _, _, _, _)
LoopEdges(m, es, k, current_depth, depth_remaining, value, alpha, beta, maximizing_player) ==
    IF k > Len(es) THEN value
    ELSE With(NewValue(value,
                       minmax_score(m, es[k].board, current_depth + 1, depth_remaining - 1,
                                    alpha, beta, ~maximizing_player),
                       maximizing_player),
              LAMBDA new_value :
                  IF cut_off(NewAlpha(alpha, new_value, maximizing_player),
                             NewBeta(beta, new_value, maximizing_player))
                  THEN new_value
                  ELSE LoopEdges(m, es, k + 1, current_depth, depth_remaining, new_value,
                                 NewAlpha(alpha, new_value, maximizing_player),
                                 NewBeta(beta, new_value, maximizing_player),
                                 maximizing_player))

\* minmax_score without the test of at_least_one_edge
minmax_score_no_fallback(m, b, current_depth, depth_remaining, alpha, beta, maximizing_player) ==
    IF depth_remaining = 0 THEN score_board(b, m.color, current_depth)
    ELSE LoopEdges(m, edges(m, b, current_depth), 1, current_depth, depth_remaining,
                   IF maximizing_player THEN IsizeMin ELSE IsizeMax,
                   alpha, beta, maximizing_player)

minmax_score(m, b, current_depth, depth_remaining, alpha, beta, maximizing_player) ==
    IF depth_remaining = 0 THEN score_board(b, m.color, current_depth)
    ELSE With(edges(m, b, current_depth),
              LAMBDA es :
                  IF es = <<>> THEN score_board(b, m.color, current_depth)
                  ELSE LoopEdges(m, es, 1, current_depth, depth_remaining,
                                 IF maximizing_player THEN IsizeMin ELSE IsizeMax,
                                 alpha, beta, maximizing_player))

RECURSIVE SumSeq(_, _)
SumSeq(s, k) == IF k > Len(s) THEN 0 ELSE s[k] + SumSeq(s, k + 1)

RECURSIVE MaxSeq(_, _, _)
MaxSeq(s, k, best) == IF k > Len(s) THEN best ELSE MaxSeq(s, k + 1, Max(best, s[k]))

\* give_all_options of MinMax on board b: the tree is built to the
\* configured depth, every child of the root is scored, the scores become
\* the weights
\* minmax_to_push without the clip at 0
minmax_to_push_unclipped(minmax) ==
    [k \in 1..Len(minmax) |-> IF minmax[k] = 0 THEN 1 ELSE minmax[k]]

\* the score of every move: 1 for a draw, 0 for a loss
minmax_to_push(minmax) == [k \in 1..Len(minmax) |-> Max(IF minmax[k] = 0 THEN 1 ELSE minmax[k], 0)]

\* the weights of the moves es scored to_push, total their sum
Weights(es, to_push, total, n_items) ==
    [k \in 1..Len(es) |->
        Option(IF 2 * total < 1 THEN Ratio(n_items * to_push[k] + 1, n_items)
               ELSE Ratio(to_push[k], total),
               es[k].pawn_index, es[k].direction)]

minmax_give_all_options(m, b) ==
    With(edges(m, b, 0),
         LAMBDA es :
             With(<<>> \o [k \in 1..Len(es) |->
                              minmax_score(m, es[k].board, 1, m.depth - 1,
                                           IsizeMin, IsizeMax, FALSE)],
                  LAMBDA minmax :
                      [board_eval |-> Ratio(MaxSeq(minmax, 1, 0), 100),
                       minmax |-> minmax,
                       options |-> Weights(es, minmax_to_push(minmax),
                                           SumSeq(minmax_to_push(minmax), 1), Len(es))]))

\* ai_play without its test of the turn
ai_play_any_turn(m, b) == best_move_from_vec(minmax_give_all_options(m, b))

\* ai_play: None at once when it is not the engine's turn, else best_move
ai_play(m, b) ==
    IF b.next_player # m.color THEN {Result("None", NoMove, FALSE, NoEvaluation)}
    ELSE best_move_from_vec(minmax_give_all_options(m, b))

(***************************************************************************)
(* SpecMinMax: one ai_play call of a MinMax engine of either color and any *)
(* depth up to MaxDepth, on a board of a game.                             *)
(***************************************************************************)
\* the board after the first k moves of a line of play from board b
RECURSIVE Played(_, _, _)
Played(b, line, k) ==
    IF k = 0 THEN b
    ELSE move_pawn_until_blocked(Played(b, line, k - 1),
                                 line[k].pawn_index, line[k].direction).board

\* two games from the start position: one that Yellow wins on the second
\* move, one that opens b1-c1, c2-c3
RootLines ==
    <<<<Move(2, "Left"), Move(3, "Down")>>,
      <<Move(0, "Right"), Move(3, "Down")>>>>

\* two boards random_board can return, Green to move: one where Green has
\* two legal moves and Yellow wins at once after either, one where the last
\* of Green's four legal moves wins
CrowdedBoard ==
    [number_of_rows |-> NumberOfRows,
     number_of_columns |-> NumberOfColumns,
     pawns |-> <<Pawn(Green, Position(0, 0)), Pawn(Green, Position(0, 1)),
                 Pawn(Green, Position(1, 0)), Pawn(Yellow, Position(0, 2)),
                 Pawn(Yellow, Position(1, 1)), Pawn(Yellow, Position(2, 1))>>,
     next_player |-> Green]

WinningBoard ==
    [number_of_rows |-> NumberOfRows,
     number_of_columns |-> NumberOfColumns,
     pawns |-> <<Pawn(Green, Position(0, 0)), Pawn(Green, Position(0, 1)),
                 Pawn(Green, Position(0, 4)), Pawn(Yellow, Position(1, 0)),
                 Pawn(Yellow, Position(1, 1)), Pawn(Yellow, Position(1, 3))>>,
     next_player |-> Green]

\* the boards an engine is asked to play on: every board of these games
\* and the board where every move of Green loses
EngineRoots ==
    {Played(default_new, RootLines[i], k) :
        <<i, k>> \in {<<i, k>> \in (1..Len(RootLines)) \X (0..2) : k <= Len(RootLines[i])}}
    \cup {CrowdedBoard}

InitMinMax ==
    /\ board \in EngineRoots
    /\ ai \in {MinMax(color, depth) : color \in Colors, depth \in 0..MaxDepth}
    /\ ai_result = NoResult
    /\ graph = EmptyGraph
    /\ iterations = 0
    /\ RulesIdle
    /\ UiIdle

AiPlay ==
    /\ ai.kind = "MinMax"
    /\ ai_result = NoResult
    /\ ai_result' \in ai_play(ai, board)
    /\ UNCHANGED <<board, ai, graph, iterations, rulesvars, uivars>>

NextMinMax == AiPlay

SpecMinMax == InitMinMax /\ [][NextMinMax]_vars

(***************************************************************************)
(* The standalone MinMax of src/src/minmax.rs: the same tree and the same  *)
(* minmax_score, and a best_move with a loop of its own.                   *)
(***************************************************************************)
StandaloneMinMax(color, depth) == [kind |-> "StandaloneMinMax", color |-> color, depth |-> depth]

\* the loop of best_move over the moves of the origin from the k-th on: a
\* larger value restarts the list, and the test of equality that follows is
\* no else branch
RECURSIVE standalone_best_moves_found(_, _, _, _, _)
standalone_best_moves_found(minmax, moves, k, best_score, found) ==
    IF k > Len(moves) THEN found
    ELSE With(IF minmax[k] > best_score THEN <<minmax[k], <<moves[k]>>>>
              ELSE <<best_score, found>>,
              LAMBDA risen :
                  standalone_best_moves_found(
                      minmax, moves, k + 1, risen[1],
                      IF minmax[k] = risen[1] THEN Append(risen[2], moves[k]) ELSE risen[2]))

\* best_move: the tree, the value of every move of the origin, the draw
standalone_best_move(m, b) ==
    With(edges(m, b, 0),
         LAMBDA es :
             With(<<>> \o [k \in 1..Len(es) |->
                              minmax_score(m, es[k].board, 1, m.depth - 1,
                                           IsizeMin, IsizeMax, FALSE)],
                  LAMBDA minmax :
                      With(standalone_best_moves_found(
                               minmax, [k \in 1..Len(es) |-> Move(es[k].pawn_index, es[k].direction)],
                               1, IsizeMin, <<>>),
                           LAMBDA found :
                               IF found = <<>>
                               THEN {Result("panic", NoMove, TRUE,
                                            [minmax |-> minmax, candidates |-> found])}
                               ELSE {Result("Some", found[i], TRUE,
                                            [minmax |-> minmax, candidates |-> found]) :
                                        i \in 1..Len(found)})))

(***************************************************************************)
(* SpecStandalone: one best_move call of a standalone MinMax engine of     *)
(* depth 1..MaxDepth, which ai_play makes on the engine's turn.            *)
(***************************************************************************)
InitStandalone ==
    /\ board \in EngineRoots
    /\ ai \in {StandaloneMinMax(color, depth) : color \in Colors, depth \in 1..MaxDepth}
    /\ ai_result = NoResult
    /\ graph = EmptyGraph
    /\ iterations = 0
    /\ RulesIdle
    /\ UiIdle

StandaloneBestMove ==
    /\ ai.kind = "StandaloneMinMax"
    /\ ai_result = NoResult
    /\ board.next_player = ai.color
    /\ ai_result' \in standalone_best_move(ai, board)
    /\ UNCHANGED <<board, ai, graph, iterations, rulesvars, uivars>>

NextStandalone == StandaloneBestMove

SpecStandalone == InitStandalone /\ [][NextStandalone]_vars

(***************************************************************************)
(* The MCTS engine (src/src/ai/mcts.rs).  Node and edge indices start at   *)
(* 1; the origin of a search is node 1.  An f32 score is kept in units of  *)
(* 1 / WinUnit, a UCB score in thousandths.                                *)
(***************************************************************************)
WinUnit == 2

MCTS(color, difficulty, trivial) ==
    [kind |-> "MCTS", color |-> color, depth |-> difficulty, trivial |-> trivial]

\* MCTSGeneric::new: the time budget of a difficulty
time_allowed_ms(m) == m.depth * m.depth * m.depth * 50

\* the untried actions of a board, all with the same prior
Untried(b, prior) ==
    With(get_all_valid_directions_and_resulting_boards(b),
         LAMBDA all :
             [k \in 1..Len(all) |->
                 [prior |-> prior, pawn_index |-> all[k].pawn_index,
                  direction |-> all[k].direction, board |-> all[k].board]])

\* two of the values the value head of the network can give a board: 0.0
\* and 0.5
BoardEvals == {0, 1}

\* Policy::predict.  The trivial policy gives the value 0.0 and the prior
\* 0.0.  The network's policy gives some value of its sigmoid, and
\* output_to_moves adds f32::MIN to every probability before it divides by
\* their sum: two moves or more all get the prior 0.0, a single move 1.0,
\* and the stable sort keeps their order.
predict(m, b) ==
    IF m.trivial THEN {[board_eval |-> 0, untried_actions |-> Untried(b, 0)]}
    ELSE With(Untried(b, 1),
              LAMBDA untried :
                  {[board_eval |-> board_eval,
                    untried_actions |->
                        [k \in 1..Len(untried) |->
                            [untried[k] EXCEPT !.prior = IF Len(untried) = 1 THEN 1 ELSE 0]]] :
                      board_eval \in BoardEvals})

MCTSNode(b, color, untried_actions, board_eval) ==
    [board |-> b, color |-> color, visits |-> 0, wins |-> 0,
     untried_actions |-> untried_actions, board_eval |-> board_eval]

is_terminal(node) == winner(node.board) # None
\* untried_actions.pop() takes the last of the list
LastUntried(node) == node.untried_actions[Len(node.untried_actions)]
is_fully_expanded(node) == Len(node.untried_actions) = 0

\* the edges out of node n, latest first, as petgraph walks them
Outgoing(g, n) == SelectSeq(Reverse(g.edges), LAMBDA e : e.source = n)

\* the source of the first edge into node n, 0 when there is none
Parent(g, n) ==
    With(SelectSeq(Reverse(g.edges), LAMBDA e : e.target = n),
         LAMBDA incoming : IF incoming = <<>> THEN 0 ELSE incoming[1].source)

\* 1000 * ln(n) for n = 1..20
LnMilli ==
    <<0, 693, 1099, 1386, 1609, 1792, 1946, 2079, 2197, 2303,
      2398, 2485, 2565, 2639, 2708, 2773, 2833, 2890, 2944, 2996>>

\* the integer square root, by bisection between low and high
RECURSIVE Bisect(_, _, _)
Bisect(x, low, high) ==
    IF high - low <= 1 THEN low
    ELSE LET mid == (low + high) \div 2
         IN IF mid * mid <= x THEN Bisect(x, mid, high) ELSE Bisect(x, low, mid)

Sqrt(x) == Bisect(x, 0, 2048)

\* the score of best_child for the child under edge e, in thousandths
Score(g, m, parent_visits, e) ==
    LET child == g.nodes[e.target]
        prior == IF m.trivial THEN 1 ELSE e.prior
        exploit == (1000 * child.wins) \div (WinUnit * child.visits)
        explore == (prior * 1414 * Sqrt((1000 * LnMilli[parent_visits]) \div child.visits)) \div 1000
    IN exploit + explore

\* the loop of best_child that keeps the first score it meets
RECURSIVE BestChildLoopKeepsFirst(_, _, _, _, _, _, _)
BestChildLoopKeepsFirst(g, m, parent_visits, es, k, best, best_score) ==
    IF k > Len(es) THEN best
    ELSE IF g.nodes[es[k].target].visits = 0 THEN es[k].target
         ELSE IF Score(g, m, parent_visits, es[k]) > best_score /\ best_score = 0
              THEN BestChildLoopKeepsFirst(g, m, parent_visits, es, k + 1, es[k].target,
                                           Score(g, m, parent_visits, es[k]))
              ELSE BestChildLoopKeepsFirst(g, m, parent_visits, es, k + 1, best, best_score)

\* the loop of best_child over the edges es from the k-th on
RECURSIVE BestChildLoop(_, _, _, _, _, _, _)
BestChildLoop(g, m, parent_visits, es, k, best, best_score) ==
    IF k > Len(es) THEN best
    ELSE IF g.nodes[es[k].target].visits = 0 THEN es[k].target
         ELSE IF Score(g, m, parent_visits, es[k]) > best_score
              THEN BestChildLoop(g, m, parent_visits, es, k + 1, es[k].target,
                                 Score(g, m, parent_visits, es[k]))
              ELSE BestChildLoop(g, m, parent_visits, es, k + 1, best, best_score)

\* best_child of node n; 0 stands for the failed unwrap when n has no edge
best_child(g, m, n) ==
    LET es == Outgoing(g, n)
    IN IF es = <<>> THEN 0
       ELSE BestChildLoop(g, m, g.nodes[n].visits, es, 1, es[1].target, 0)

\* the selection loop of iterate, from node n down
RECURSIVE Select(_, _, _)
Select(g, m, n) ==
    IF n = 0 THEN 0
    ELSE IF ~is_terminal(g.nodes[n]) /\ is_fully_expanded(g.nodes[n])
         THEN Select(g, m, best_child(g, m, n))
         ELSE n

\* expand without the pop: the move stays in the untried list
expand_keeps_untried(g, n, prediction) ==
    LET node == g.nodes[n]
        action == node.untried_actions[Len(node.untried_actions)]
        child == MCTSNode(action.board, other_color(node.color),
                          prediction.untried_actions, prediction.board_eval)
    IN [nodes |-> Append(g.nodes, child),
        edges |-> Append(g.edges, [source |-> n, target |-> Len(g.nodes) + 1,
                                    prior |-> action.prior, pawn_index |-> action.pawn_index,
                                    direction |-> action.direction])]

\* expand that hangs every child under the origin
expand_under_origin(g, n, prediction) ==
    [nodes |-> Append([g.nodes EXCEPT ![n].untried_actions = SubSeq(@, 1, Len(@) - 1)],
                      MCTSNode(LastUntried(g.nodes[n]).board, other_color(g.nodes[n].color),
                               prediction.untried_actions, prediction.board_eval)),
     edges |-> Append(g.edges, [source |-> 1, target |-> Len(g.nodes) + 1,
                                 prior |-> LastUntried(g.nodes[n]).prior,
                                 pawn_index |-> LastUntried(g.nodes[n]).pawn_index,
                                 direction |-> LastUntried(g.nodes[n]).direction])]

\* expand that gives the child the color of its parent
expand_same_color(g, n, prediction) ==
    [nodes |-> Append([g.nodes EXCEPT ![n].untried_actions = SubSeq(@, 1, Len(@) - 1)],
                      MCTSNode(LastUntried(g.nodes[n]).board, g.nodes[n].color,
                               prediction.untried_actions, prediction.board_eval)),
     edges |-> Append(g.edges, [source |-> n, target |-> Len(g.nodes) + 1,
                                 prior |-> LastUntried(g.nodes[n]).prior,
                                 pawn_index |-> LastUntried(g.nodes[n]).pawn_index,
                                 direction |-> LastUntried(g.nodes[n]).direction])]

\* expand: the last untried action of node n becomes a child node and an edge
expand(g, n, prediction) ==
    LET node == g.nodes[n]
        action == node.untried_actions[Len(node.untried_actions)]
        child == MCTSNode(action.board, other_color(node.color),
                          prediction.untried_actions, prediction.board_eval)
    IN [nodes |-> Append([g.nodes EXCEPT ![n].untried_actions =
                              SubSeq(@, 1, Len(@) - 1)], child),
        edges |-> Append(g.edges, [source |-> n, target |-> Len(g.nodes) + 1,
                                    prior |-> action.prior, pawn_index |-> action.pawn_index,
                                    direction |-> action.direction])]

\* random_rollout: on a finished board the test of the winner; from any
\* other board the random game can end with either color aligned
random_rollout(node) ==
    IF node.board.next_player = None
    THEN {IF winner(node.board) = node.color THEN WinUnit ELSE 0}
    ELSE {0, WinUnit}

rollout(m, node) == IF m.trivial THEN random_rollout(node) ELSE {node.board_eval}

\* backpropagate that stops at the first node
backpropagate_one_node(g, n, to_add) ==
    [g EXCEPT !.nodes[n].visits = @ + 1, !.nodes[n].wins = @ + to_add]

\* backpropagate that adds the same score at every node
RECURSIVE backpropagate_same_score(_, _, _)
backpropagate_same_score(g, n, to_add) ==
    IF Parent(g, n) = 0 THEN backpropagate_one_node(g, n, to_add)
    ELSE backpropagate_same_score(backpropagate_one_node(g, n, to_add), Parent(g, n), to_add)

\* backpropagate that starts at the parent of the node
backpropagate_above_leaf(g, n, to_add) ==
    IF Parent(g, n) = 0 THEN g ELSE backpropagate_same_score(g, Parent(g, n), to_add)

\* backpropagate: from node n up the incoming edges to the origin
RECURSIVE backpropagate(_, _, _)
backpropagate(g, n, to_add) ==
    LET updated == [g EXCEPT !.nodes[n].visits = @ + 1, !.nodes[n].wins = @ + to_add]
    IN IF Parent(g, n) = 0 THEN updated
       ELSE backpropagate(updated, Parent(g, n), WinUnit - to_add)

\* the loop of choose_final_move without the branch of the equal visits
RECURSIVE FinalLoopDropsTies(_, _, _, _, _)
FinalLoopDropsTies(g, es, k, best_score, found) ==
    IF k > Len(es) THEN found
    ELSE IF g.nodes[es[k].target].visits > best_score
         THEN FinalLoopDropsTies(g, es, k + 1, g.nodes[es[k].target].visits,
                                 <<Move(es[k].pawn_index, es[k].direction)>>)
         ELSE FinalLoopDropsTies(g, es, k + 1, best_score, found)

\* the loop of choose_final_move over the edges of the origin
RECURSIVE FinalLoop(_, _, _, _, _)
FinalLoop(g, es, k, best_score, found) ==
    IF k > Len(es) THEN found
    ELSE LET visits == g.nodes[es[k].target].visits
             move == Move(es[k].pawn_index, es[k].direction)
         IN IF visits > best_score THEN FinalLoop(g, es, k + 1, visits, <<move>>)
            ELSE IF visits = best_score THEN FinalLoop(g, es, k + 1, best_score, Append(found, move))
            ELSE FinalLoop(g, es, k + 1, best_score, found)

\* choose_final_move: indexing the empty list aborts
choose_final_move(g) ==
    With(FinalLoop(g, Outgoing(g, 1), 1, 0, <<>>),
         LAMBDA found :
             IF found = <<>> THEN {Result("panic", NoMove, TRUE, [candidates |-> found])}
             ELSE {Result("Some", found[i], TRUE, [candidates |-> found]) : i \in 1..Len(found)})

\* the visits of the children under the edges es
VisitsOf(g, es) == [k \in 1..Len(es) |-> g.nodes[es[k].target].visits]

\* the moves of the edges es, each weighted by visits[k] / total_visits
Shares(es, visits, total_visits) ==
    [k \in 1..Len(es) |->
        Option(Ratio(visits[k], total_visits), es[k].pawn_index, es[k].direction)]

\* choose_final_move_give_all_options that divides by the number of moves
choose_final_move_give_all_options_by_count(g) ==
    Shares(Outgoing(g, 1), VisitsOf(g, Outgoing(g, 1)), Len(Outgoing(g, 1)))

\* choose_final_move_give_all_options: the visit share of every edge of the
\* origin
choose_final_move_give_all_options(g) ==
    Shares(Outgoing(g, 1), VisitsOf(g, Outgoing(g, 1)),
           SumSeq(VisitsOf(g, Outgoing(g, 1)), 1))

(***************************************************************************)
(* SpecMCTS: one ai_play call of an MCTS engine, iteration by iteration.   *)
(* The loop test `O::now() - start_time < time_allowed_ms` fails when the  *)
(* budget is 0 ms and can pass or fail at any turn when it is not; the     *)
(* model stops it after MaxIterations iterations.                          *)
(***************************************************************************)
MCTSRoots ==
    {default_new, Played(default_new, RootLines[1], 2), CrowdedBoard, WinningBoard}

\* the difficulty 0 and the default difficulty of the UI
Difficulties == {0, 4}

Searching == ai_result.kind = "searching"

InitMCTS ==
    /\ board \in MCTSRoots
    /\ ai \in {MCTS(color, difficulty, trivial) :
                  color \in Colors, difficulty \in Difficulties, trivial \in BOOLEAN}
    /\ ai_result = NoResult
    /\ graph = EmptyGraph
    /\ iterations = 0
    /\ RulesIdle
    /\ UiIdle

\* no iteration is completed yet
NoIteration == [selected |-> 0, expands |-> FALSE, node_index |-> 0, winner |-> 0]

\* ai_play up to the loop of best_move: None when it is not the engine's
\* turn, else the graph is cleared and the origin added
StartSearch ==
    /\ ai.kind = "MCTS"
    /\ ai_result = NoResult
    /\ IF board.next_player # ai.color
       THEN /\ ai_result' = Result("None", NoMove, FALSE, NoEvaluation)
            /\ UNCHANGED graph
       ELSE /\ ai_result' = Result("searching", NoMove, TRUE, NoIteration)
            /\ \E first_prediction \in predict(ai, board) :
                  graph' = [nodes |-> <<MCTSNode(board, other_color(ai.color),
                                                 first_prediction.untried_actions,
                                                 first_prediction.board_eval)>>,
                            edges |-> <<>>]
    /\ UNCHANGED <<board, ai, iterations, rulesvars, uivars>>

\* one turn of the loop: iterate(origin)
Iterate ==
    /\ Searching
    /\ time_allowed_ms(ai) > 0
    /\ iterations < MaxIterations
    /\ \E selected \in {Select(graph, ai, 1)} :
          IF selected = 0
          THEN /\ ai_result' = Result("panic", NoMove, TRUE, NoEvaluation)
               /\ UNCHANGED <<graph, iterations>>
          ELSE \E expands \in {~is_terminal(graph.nodes[selected])
                               /\ ~is_fully_expanded(graph.nodes[selected])} :
               \E prediction \in
                      IF expands THEN predict(ai, LastUntried(graph.nodes[selected]).board)
                      ELSE {[board_eval |-> 0, untried_actions |-> <<>>]} :
               \E expanded \in {IF expands THEN expand(graph, selected, prediction) ELSE graph} :
               \E node_index \in {IF expands THEN Len(expanded.nodes) ELSE selected} :
               \E winner_score \in rollout(ai, expanded.nodes[node_index]) :
                  /\ graph' = backpropagate(expanded, node_index, winner_score)
                  /\ iterations' = iterations + 1
                  /\ ai_result' = Result("searching", NoMove, TRUE,
                                         [selected |-> selected, expands |-> expands,
                                          node_index |-> node_index,
                                          winner |-> winner_score])
    /\ UNCHANGED <<board, ai, rulesvars, uivars>>

\* the loop test fails: choose_final_move(origin)
FinalMove ==
    /\ Searching
    /\ ai_result' \in choose_final_move(graph)
    /\ UNCHANGED <<board, ai, graph, iterations, rulesvars, uivars>>

\* the loop test fails in give_all_options, which the trainer calls on the
\* engine's turn and which runs the same loop from the same origin:
\* choose_final_move_give_all_options(origin)
FinalOptions ==
    /\ Searching
    /\ ai_result' = Result("options", NoMove, TRUE,
                           [options |-> choose_final_move_give_all_options(graph)])
    /\ UNCHANGED <<board, ai, graph, iterations, rulesvars, uivars>>

NextMCTS == StartSearch \/ Iterate \/ FinalMove \/ FinalOptions

SpecMCTS == InitMCTS /\ [][NextMCTS]_vars

(***************************************************************************)
(* SpecBestChild: best_child on a fully expanded node with up to           *)
(* MaxChildren children, whatever their visits, scores and priors.         *)
(***************************************************************************)
\* the visits and the accumulated score (in units of 1 / WinUnit) of a child
ChildStats ==
    {<<0, 0>>, <<1, 0>>, <<1, 1>>, <<1, 2>>, <<2, 1>>, <<2, 4>>, <<3, 2>>}

\* the prior weights of an edge: 0.0 and 1.0
Priors == {0, 1}

\* the graph of a parent with the given children, the parent visited once
\* for every visit of a child and own_visits times more
Family(stats, priors, own_visits) ==
    [nodes |->
         <<[MCTSNode(default_new, Yellow, <<>>, 0)
                EXCEPT !.visits = own_visits + SumSeq([k \in 1..Len(stats) |-> stats[k][1]], 1)]>>
         \o [k \in 1..Len(stats) |->
                [MCTSNode(default_new, Green, <<>>, 0)
                     EXCEPT !.visits = stats[k][1], !.wins = stats[k][2]]],
     edges |-> [k \in 1..Len(stats) |->
                   [source |-> 1, target |-> k + 1, prior |-> priors[k],
                    pawn_index |-> 0, direction |-> "Right"]]]

InitBestChild ==
    /\ board = default_new
    /\ ai \in {MCTS(Green, 4, trivial) : trivial \in BOOLEAN}
    /\ \E n \in 1..MaxChildren :
          \E stats \in [1..n -> ChildStats], priors \in [1..n -> Priors], own_visits \in {0, 1} :
             graph = Family(stats, priors, own_visits)
    /\ ai_result = NoResult
    /\ iterations = 0
    /\ RulesIdle
    /\ UiIdle

BestChild ==
    /\ ai_result = NoResult
    /\ ai_result' = Result("best_child", NoMove, TRUE, [returned |-> best_child(graph, ai, 1)])
    /\ UNCHANGED <<board, ai, graph, iterations, rulesvars, uivars>>

NextBestChild == BestChild

SpecBestChild == InitBestChild /\ [][NextBestChild]_vars

(***************************************************************************)
(* SpecBestMove: best_move_from_vec on any list of up to MaxOptions moves, *)
(* whatever their weights.                                                 *)
(***************************************************************************)
\* the weights of a move: one below 0.0, 0.0, 0.5 written twice, 1.0
OptionWeights == {Ratio(-1, 2), Ratio(0, 1), Ratio(1, 2), Ratio(2, 4), Ratio(1, 1)}

\* n different moves with the given weights
OptionsOf(weights) == [k \in 1..Len(weights) |-> Option(weights[k], k - 1, "Up")]

InitBestMove ==
    /\ board = default_new
    /\ ai = NoAi
    /\ \E n \in 0..MaxOptions :
          \E weights \in [1..n -> OptionWeights] :
             ai_result = Result("asked", NoMove, FALSE,
                                [NoEvaluation EXCEPT !.options = OptionsOf(weights)])
    /\ graph = EmptyGraph
    /\ iterations = 0
    /\ RulesIdle
    /\ UiIdle

BestMoveFromVec ==
    /\ ai_result.kind = "asked"
    /\ ai_result' \in best_move_from_vec(ai_result.evaluation)
    /\ UNCHANGED <<board, ai, graph, iterations, rulesvars, uivars>>

NextBestMove == BestMoveFromVec

SpecBestMove == InitBestMove /\ [][NextBestMove]_vars

(***************************************************************************)
(* SpecEngines: one ai_play call of either engine.                         *)
(***************************************************************************)
InitEngines == InitMinMax \/ InitMCTS

NextEngines == NextMinMax \/ NextMCTS

SpecEngines == InitEngines /\ [][NextEngines]_vars

(***************************************************************************)
(* SpecUI: the App of src/src/ui.rs.  The user's clicks and selections     *)
(* arrive one at a time, up to MaxEvents of them; a message a handler      *)
(* sends to the App is handled before the next click.  A spawned AI task   *)
(* sleeps 50 ms, then computes its move and sends AiMoveReady; the tasks   *)
(* wake in the order they were spawned.                                    *)
(***************************************************************************)
\* Option<usize>::None for selected_pawn
NoPawn == -1

AiType(kind, color) == [kind |-> kind, color |-> color]

\* the AiType variants create_ai makes for the values of the AI type select
AiKinds == <<"MinMax", "MCTS", "ANNSolo", "AlphaZeutreeko">>

\* the values of the two selects the model's user picks
AiTypesPicked == {0, 1, 2}
DifficultiesPicked == {1, 4}

\* App::create
AppCreated ==
    [ai |-> AiType("None", None), ai_thinking |-> FALSE, selected_pawn |-> NoPawn,
     difficulty_selected |-> 4, ai_type_selected |-> 0]

InitUI ==
    /\ board = default_new
    /\ ui = AppCreated
    /\ inbox = <<>>
    /\ tasks = <<>>
    /\ events = 0
    /\ RulesIdle
    /\ AiIdle

\* a click or a selection of the user is only taken when the App has no
\* message left to handle
UserEvent ==
    /\ inbox = <<>>
    /\ events < MaxEvents
    /\ events' = events + 1

SetAiType ==
    /\ UserEvent
    /\ \E ai_type \in AiTypesPicked : ui' = [ui EXCEPT !.ai_type_selected = ai_type]
    /\ UNCHANGED <<board, inbox, tasks, rulesvars, aivars>>

SetDifficulty ==
    /\ UserEvent
    /\ \E difficulty \in DifficultiesPicked : ui' = [ui EXCEPT !.difficulty_selected = difficulty]
    /\ UNCHANGED <<board, inbox, tasks, rulesvars, aivars>>

PawnClick ==
    /\ UserEvent
    /\ \E pawn_index \in PawnIndices(board) :
          ui' = IF board.next_player = PawnAt(board, pawn_index).color
                THEN [ui EXCEPT !.selected_pawn = pawn_index]
                ELSE ui
    /\ UNCHANGED <<board, inbox, tasks, rulesvars, aivars>>

\* the direction buttons shown are the valid directions of the selected pawn
DirectionClick ==
    /\ UserEvent
    /\ ui.selected_pawn # NoPawn
    /\ \E direction \in DirectionSet :
          LET new_board == move_pawn_until_blocked(board, ui.selected_pawn, direction)
          IN /\ new_board.ok
             /\ board' = new_board.board
             /\ ui' = [ui EXCEPT !.selected_pawn = NoPawn]
             /\ inbox' = Append(inbox, [msg |-> "AiShouldPlay"])
    /\ UNCHANGED <<tasks, rulesvars, aivars>>

Restart ==
    /\ UserEvent
    /\ board' = default_new
    /\ ui' = [ui EXCEPT !.selected_pawn = NoPawn, !.ai = AiType("None", None),
                        !.ai_thinking = FALSE]
    /\ UNCHANGED <<inbox, tasks, rulesvars, aivars>>

\* create_ai, then the message AiShouldPlay
CreateAi ==
    /\ UserEvent
    /\ \E color \in Colors :
          ui' = IF ui.ai_type_selected = 0 THEN ui
                ELSE [ui EXCEPT !.ai = AiType(AiKinds[ui.ai_type_selected], color)]
    /\ inbox' = Append(inbox, [msg |-> "AiShouldPlay"])
    /\ UNCHANGED <<board, tasks, rulesvars, aivars>>

\* the task AiShouldPlay spawns: a copy of the board and an engine of its own
Task(b, kind, color, difficulty) ==
    [board |-> b, ai |-> [kind |-> kind, color |-> color, depth |-> difficulty]]

\* AiShouldPlay: nothing without an engine or when it is not the engine's
\* turn; else a task is spawned, whether or not one is already under way
AiShouldPlay ==
    /\ inbox # <<>>
    /\ inbox[1].msg = "AiShouldPlay"
    /\ inbox' = Tail(inbox)
    /\ IF ui.ai.kind = "None" \/ ui.ai.color # board.next_player
       THEN UNCHANGED <<ui, tasks>>
       ELSE /\ ui' = [ui EXCEPT !.ai_thinking = TRUE]
            /\ tasks' = Append(tasks, Task(board, ui.ai.kind, ui.ai.color, ui.difficulty_selected))
    /\ UNCHANGED <<board, events, rulesvars, aivars>>

\* what ai_play of a task's engine can return on the task's board: None
\* when it is not its turn, else one of the legal moves of that board
TaskMoves(task) ==
    IF task.board.next_player # task.ai.color THEN {NoMove}
    ELSE MovesOf(get_all_valid_directions_and_resulting_boards(task.board))

\* the oldest task wakes, computes its move and sends AiMoveReady
TaskDone ==
    /\ inbox = <<>>
    /\ tasks # <<>>
    /\ \E ai_move \in TaskMoves(tasks[1]) :
          inbox' = Append(inbox, [msg |-> "AiMoveReady", ai_move |-> ai_move, task |-> tasks[1]])
    /\ tasks' = Tail(tasks)
    /\ UNCHANGED <<board, ui, events, rulesvars, aivars>>

AiMoveReady ==
    /\ inbox # <<>>
    /\ inbox[1].msg = "AiMoveReady"
    /\ inbox' = Tail(inbox)
    /\ ui' = [ui EXCEPT !.ai_thinking = FALSE]
    /\ board' = IF inbox[1].ai_move = NoMove THEN board
                ELSE move_pawn_until_blocked(board, inbox[1].ai_move.pawn_index,
                                             inbox[1].ai_move.direction).board
    /\ UNCHANGED <<tasks, events, rulesvars, aivars>>

NextUI ==
    \/ SetAiType \/ SetDifficulty \/ PawnClick \/ DirectionClick \/ Restart \/ CreateAi
    \/ AiShouldPlay \/ TaskDone \/ AiMoveReady

SpecUI == InitUI /\ [][NextUI]_vars

(***************************************************************************)
(* Claims about the engines.                                               *)
(***************************************************************************)
Called == ai_result.kind # "idle"
EnginesTurn == board.next_player = ai.color
LegalMoves(b) ==
    {mv \in [pawn_index : PawnIndices(b), direction : DirectionSet] :
        move_pawn_until_blocked(b, mv.pawn_index, mv.direction).ok}

\* C11: every move an engine returns on its turn (MinMax of depth 1 or
\* more, MCTS after one iteration or more) is a legal move of the board it
\* was asked on: move_pawn_until_blocked succeeds with it.
C11_EngineMovesAreLegal ==
    (/\ ai_result.kind = "Some"
     /\ EnginesTurn
     /\ ai.kind = "MinMax" => ai.depth >= 1
     /\ ai.kind = "MCTS" => iterations >= 1) =>
        move_pawn_until_blocked(board, ai_result.move.pawn_index, ai_result.move.direction).ok

\* a Yellow MinMax engine of depth 1 or more returned a move
C11_Witness ==
    /\ ai_result.kind = "Some"
    /\ ai.kind = "MinMax"
    /\ ai.color = Yellow
    /\ ai.depth >= 1

\* C12: ai_play returns None, and searches nothing, whenever the board's
\* next player is not the engine's color, a finished game included; it
\* returns Some(move) only when it is the engine's turn.
C12_NoneUnlessEnginesTurn ==
    Called =>
        /\ ~EnginesTurn => ai_result.kind = "None" /\ ~ai_result.searched
        /\ ai_result.kind = "Some" => EnginesTurn

\* ai_play returned None on a finished game
C12_Witness ==
    /\ Called
    /\ board.next_player = None
    /\ ai_result.kind = "None"

\* minimax without any pruning on the tree of give_all_options: the static
\* score at depth_remaining 0 and under a node without edges, else the
\* largest or the smallest value of the children
RECURSIVE PlainMinimax(_, _, _, _, _)
PlainMinimax(m, b, current_depth, depth_remaining, maximizing_player) ==
    LET es == IF depth_remaining = 0 THEN <<>> ELSE edges(m, b, current_depth)
        values == {PlainMinimax(m, es[k].board, current_depth + 1, depth_remaining - 1,
                                ~maximizing_player) : k \in 1..Len(es)}
    IN IF es = <<>> THEN score_board(b, m.color, current_depth)
       ELSE IF maximizing_player
            THEN CHOOSE v \in values : \A w \in values : w <= v
            ELSE CHOOSE v \in values : \A w \in values : v <= w

\* C13: on every tree built by give_all_options, the value minmax_score
\* computes with its cut-off for a child of the root is the value of plain
\* minimax on the same tree.
C13_PruningKeepsValue ==
    (Called /\ ai_result.searched) =>
        LET es == edges(ai, board, 0)
        IN \A k \in 1..Len(es) :
              ai_result.evaluation.minmax[k] = PlainMinimax(ai, es[k].board, 1, ai.depth - 1, FALSE)

\* a depth 3 search in which a cut-off left leaves unvisited: under a child
\* of the root, the first leaf of the second grandchild already reaches the
\* value of the first grandchild, and that grandchild has more leaves
C13_Witness ==
    /\ Called
    /\ ai_result.kind = "Some"
    /\ ai.depth = 3
    /\ \E k \in 1..Len(edges(ai, board, 0)) :
          LET child == edges(ai, board, 0)[k].board
              grandchildren == edges(ai, child, 1)
          IN /\ Len(grandchildren) >= 2
             /\ LET beta == minmax_score(ai, grandchildren[1].board, 2, 1, IsizeMin, IsizeMax, TRUE)
                    leaves == edges(ai, grandchildren[2].board, 2)
                IN /\ Len(leaves) >= 2
                   /\ beta <= score_board(leaves[1].board, ai.color, 3)

\* C16: a MinMax engine of depth 0, asked on its turn on a board with a
\* legal move, answers with a legal move instead of aborting.
C16_DepthZeroAnswers ==
    (Called /\ ai.kind = "MinMax" /\ ai.depth = 0 /\ EnginesTurn /\ LegalMoves(board) # {}) =>
        /\ ai_result.kind = "Some"
        /\ ai_result.move \in LegalMoves(board)

RECURSIVE SumVisits(_, _, _)
SumVisits(g, es, k) ==
    IF k > Len(es) THEN 0 ELSE g.nodes[es[k].target].visits + SumVisits(g, es, k + 1)

\* C14: during a search from a non-terminal root, after k completed
\* iterations the root has k visits and the visits of its children sum to k.
C14_VisitsSumToIterations ==
    (graph # EmptyGraph /\ ~is_terminal(graph.nodes[1])) =>
        /\ graph.nodes[1].visits = iterations
        /\ SumVisits(graph, Outgoing(graph, 1), 1) = iterations

\* three iterations or more are completed and one of them went through a
\* child of the root
C14_Witness ==
    /\ Searching
    /\ iterations >= 3
    /\ \E k \in 1..Len(graph.edges) : graph.edges[k].source # 1

\* C15: an MCTS engine with the trivial policy and a budget of 0 ms, asked
\* on its turn on a board with a legal move, returns a legal move of that
\* board; it neither returns None nor aborts.
C15_ZeroBudgetAnswers ==
    (/\ ai.kind = "MCTS"
     /\ ai.trivial
     /\ time_allowed_ms(ai) = 0
     /\ EnginesTurn
     /\ LegalMoves(board) # {}
     /\ Called
     /\ ~Searching) =>
        /\ ai_result.kind = "Some"
        /\ ai_result.move \in LegalMoves(board)

\* the score the claim states for the child under edge e, in thousandths:
\* exploitation + prior * 1.414 * sqrt(ln(parent visits) / child visits)
StatedScore(e) ==
    LET child == graph.nodes[e.target]
        parent == graph.nodes[e.source]
        prior == IF ai.trivial THEN 1 ELSE e.prior
    IN (1000 * child.wins) \div (WinUnit * child.visits)
       + (prior * 1414 * Sqrt((1000 * LnMilli[parent.visits]) \div child.visits)) \div 1000

\* C19: best_child on a non-terminal fully expanded node returns a child
\* with zero visits if any child has zero visits; otherwise it returns a
\* child whose score, exploitation + exploration, is maximal among the
\* children, with prior 1.0 under the trivial policy and the edge's prior
\* otherwise.
C19_BestChildIsUnvisitedOrMaximal ==
    ai_result.kind = "best_child" =>
        LET es == Outgoing(graph, 1)
            returned == ai_result.evaluation.returned
        IN /\ \E k \in 1..Len(es) : es[k].target = returned
           /\ IF \E k \in 1..Len(es) : graph.nodes[es[k].target].visits = 0
              THEN graph.nodes[returned].visits = 0
              ELSE \A k, l \in 1..Len(es) :
                      es[k].target = returned => StatedScore(es[k]) >= StatedScore(es[l])

\* best_child returned the middle one of three visited children, under the
\* network's policy with priors that differ
C19_Witness ==
    /\ ai_result.kind = "best_child"
    /\ ~ai.trivial
    /\ Len(graph.edges) = 3
    /\ \A n \in 2..4 : graph.nodes[n].visits > 0
    /\ graph.edges[1].prior # graph.edges[2].prior
    /\ ai_result.evaluation.returned = 3

\* C20: for every node of the graph, the moves of its untried list and the
\* moves of its outgoing edges are disjoint, hold no move twice and are
\* together the legal moves of the node's board; every node but the origin
\* came with one edge.
C20_UntriedAndEdgesAreTheLegalMoves ==
    /\ Len(graph.nodes) > 0 => Len(graph.edges) = Len(graph.nodes) - 1
    /\ \A n \in 1..Len(graph.nodes) :
          LET untried == graph.nodes[n].untried_actions
              out == Outgoing(graph, n)
              legal == LegalMoves(graph.nodes[n].board)
          IN /\ MovesOf(untried) \cap MovesOf(out) = {}
             /\ MovesOf(untried) \cup MovesOf(out) = legal
             /\ Len(untried) + Len(out) = Cardinality(legal)

\* a node with untried moves and with children, the last of which was just
\* added by an expansion
C20_Witness ==
    /\ Searching
    /\ ai_result.evaluation.expands
    /\ \E n \in 1..Len(graph.nodes) :
          /\ graph.nodes[n].untried_actions # <<>>
          /\ Len(Outgoing(graph, n)) >= 2

\* C18: in the UI at most one AI task is under way at any time: AiShouldPlay
\* starts no second task while a task started before has not delivered its
\* AiMoveReady.  (That every task has an engine and a graph of its own
\* holds by the shape of Task: each task carries the engine made for it.)
C18_OneTaskPerDecision ==
    Len(tasks) + Cardinality({k \in 1..Len(inbox) : inbox[k].msg = "AiMoveReady"}) <= 1

(***************************************************************************)
(* Claims about the searches.                                              *)
(***************************************************************************)
\* the record of the last completed iteration and the node it evaluated
LastIteration == ai_result.evaluation
Iterated == Searching /\ iterations > 0
EvaluatedNode == graph.nodes[LastIteration.node_index]

\* C21: when an iteration evaluates a node whose board is terminal, the
\* value backed up from that node is a full win for the player who just
\* moved there (the color of the node) and so a loss for the side to move,
\* under the trivial policy and under the network's policy alike.
C21_TerminalNodeIsWinForItsMover ==
    (Iterated /\ is_terminal(EvaluatedNode)) =>
        /\ winner(EvaluatedNode.board) = EvaluatedNode.color
        /\ LastIteration.winner = WinUnit

\* the nodes from n up to the origin along the incoming edges, n first
RECURSIVE ChainSeq(_, _)
ChainSeq(g, n) == IF n = 0 THEN <<>> ELSE <<n>> \o ChainSeq(g, Parent(g, n))

\* the step of a completed iteration
IterationStep == Searching' /\ iterations' = iterations + 1

\* the visits and wins of node n before the step; a node the step added
\* started with none
VisitsBefore(n) == IF n <= Len(graph.nodes) THEN graph.nodes[n].visits ELSE 0
WinsBefore(n) == IF n <= Len(graph.nodes) THEN graph.nodes[n].wins ELSE 0

\* the step changed the statistics of the nodes of the chain from the
\* evaluated node to the origin, the k-th of them by Running(k), and of no
\* other node
BackedUp(Running(_)) ==
    LET chain == ChainSeq(graph', ai_result'.evaluation.node_index)
    IN \A n \in 1..Len(graph'.nodes) :
          IF \E k \in 1..Len(chain) : chain[k] = n
          THEN \A k \in 1..Len(chain) :
                  chain[k] = n =>
                      /\ graph'.nodes[n].visits = VisitsBefore(n) + 1
                      /\ graph'.nodes[n].wins = WinsBefore(n) + Running(k)
          ELSE /\ graph'.nodes[n].visits = VisitsBefore(n)
               /\ graph'.nodes[n].wins = WinsBefore(n)

\* C22 as stated: backpropagate(n, s) adds one visit and the running score
\* to every node of the chain of incoming edges from n to the root, the
\* running score being s at n and negated at every step; no other node
\* changes.
C22_RunningScoreNegated ==
    [][IterationStep =>
          BackedUp(LAMBDA k : IF k % 2 = 1 THEN ai_result'.evaluation.winner
                              ELSE 0 - ai_result'.evaluation.winner)]_vars

\* C22 amended: the running score is s at n and is replaced by 1.0 - s at
\* every step toward the root; the other parts as stated.
C22_RunningScoreComplemented ==
    [][IterationStep =>
          BackedUp(LAMBDA k : IF k % 2 = 1 THEN ai_result'.evaluation.winner
                              ELSE WinUnit - ai_result'.evaluation.winner)]_vars

\* an iteration backed up from a grandchild of the origin while the origin
\* has another child
C22_Witness ==
    /\ Iterated
    /\ Len(ChainSeq(graph, LastIteration.node_index)) = 3
    /\ Len(Outgoing(graph, 1)) >= 2

\* C23 as stated: the color of the origin and of every node whose board is
\* not terminal is the color to move next on the node's board.
C23_ColorIsNextPlayer ==
    \A n \in 1..Len(graph.nodes) :
       ~is_terminal(graph.nodes[n]) =>
           graph.nodes[n].color = graph.nodes[n].board.next_player

\* C23 amended: the color of the origin and of every node whose board is
\* not terminal is the color that moved last, the other color than the one
\* to move next on the node's board.
C23_ColorIsLastMover ==
    \A n \in 1..Len(graph.nodes) :
       ~is_terminal(graph.nodes[n]) =>
           /\ graph.nodes[n].board.next_player \in Colors
           /\ graph.nodes[n].color = other_color(graph.nodes[n].board.next_player)

\* the graph holds the origin, a child and a grandchild, none terminal
C23_Witness ==
    /\ Iterated
    /\ \E n \in 1..Len(graph.nodes) :
          /\ Len(ChainSeq(graph, n)) = 3
          /\ \A k \in 1..3 : ~is_terminal(graph.nodes[ChainSeq(graph, n)[k]])

\* the edges of the origin whose child has the most visits of its children
MostVisited ==
    {k \in 1..Len(graph.edges) :
        /\ graph.edges[k].source = 1
        /\ \A l \in 1..Len(graph.edges) :
              graph.edges[l].source = 1 =>
                  graph.nodes[graph.edges[k].target].visits
                      >= graph.nodes[graph.edges[l].target].visits}

FinalMoveChosen == ai.kind = "MCTS" /\ ai_result.kind \in {"Some", "panic"}

\* C24: after a search of one iteration or more choose_final_move returns
\* the move of a most visited child of the origin; the list it draws from
\* holds the move of every most visited child once and nothing else.
C24_FinalMoveIsMostVisited ==
    (FinalMoveChosen /\ iterations >= 1) =>
        /\ ai_result.kind = "Some"
        /\ LET candidates == ai_result.evaluation.candidates
           IN /\ Len(candidates) = Cardinality(MostVisited)
              /\ \A k \in MostVisited :
                    \E i \in 1..Len(candidates) :
                       candidates[i] = Move(graph.edges[k].pawn_index, graph.edges[k].direction)
              /\ \E i \in 1..Len(candidates) : ai_result.move = candidates[i]

\* the move was drawn from two candidates or more while another child of
\* the origin had fewer visits
C24_Witness ==
    /\ FinalMoveChosen
    /\ ai_result.kind = "Some"
    /\ Len(ai_result.evaluation.candidates) >= 2
    /\ Cardinality(MostVisited) < Len(Outgoing(graph, 1))

\* the weights of a list of options are quotients over one denominator and
\* add up to 1
SumsToOne(options) ==
    /\ \A k \in 1..Len(options) : options[k].weight.den = options[1].weight.den
    /\ SumSeq([k \in 1..Len(options) |-> options[k].weight.num], 1) = options[1].weight.den

\* C25: after a search of one iteration or more give_all_options of MCTS
\* returns one entry for every move under the origin, weighted by the
\* visits of that child over the visits of all the children: no weight is
\* negative and the weights add up to 1.
C25_OptionsAreVisitShares ==
    (ai_result.kind = "options" /\ iterations >= 1) =>
        LET options == ai_result.evaluation.options
            es == Outgoing(graph, 1)
        IN /\ Len(options) = Len(es)
           /\ Len(es) >= 1
           /\ \A k \in 1..Len(es) :
                 /\ Move(options[k].pawn_index, options[k].direction)
                        = Move(es[k].pawn_index, es[k].direction)
                 /\ Same(options[k].weight,
                         Ratio(graph.nodes[es[k].target].visits, SumVisits(graph, es, 1)))
                 /\ options[k].weight.num >= 0
                 /\ options[k].weight.den > 0
           /\ SumsToOne(options)

\* the options of a search whose children have different visits
C25_Witness ==
    /\ ai_result.kind = "options"
    /\ Len(ai_result.evaluation.options) >= 3
    /\ \E k, l \in 1..Len(ai_result.evaluation.options) :
          Greater(ai_result.evaluation.options[k].weight,
                  ai_result.evaluation.options[l].weight)

MinMaxAnswered == ai.kind = "MinMax" /\ ai_result.kind \in {"Some", "panic"}

\* C26: give_all_options of a MinMax engine of depth 1 or more, on its turn,
\* returns one weight for every legal move of the board; no weight is
\* negative and the weights add up to 1; a move of negative minimax value
\* has the weight 0, unless every move has a negative value: then every
\* move has the weight 1 / n.
C26_WeightsAreADistribution ==
    (MinMaxAnswered /\ ai.depth >= 1) =>
        LET options == ai_result.evaluation.options
            minmax == ai_result.evaluation.minmax
            legal == LegalMoves(board)
        IN /\ Len(options) = Cardinality(legal)
           /\ MovesOf(options) = legal
           /\ Len(options) >= 1
           /\ \A k \in 1..Len(options) :
                 /\ options[k].weight.num >= 0
                 /\ options[k].weight.den > 0
           /\ SumsToOne(options)
           /\ \A k \in 1..Len(options) :
                 minmax[k] < 0 =>
                     IF \A l \in 1..Len(options) : minmax[l] < 0
                     THEN Same(options[k].weight, Ratio(1, Len(options)))
                     ELSE options[k].weight.num = 0

\* a search where every move has a negative value
C26_Witness ==
    /\ MinMaxAnswered
    /\ ai.depth >= 2
    /\ Len(ai_result.evaluation.minmax) >= 2
    /\ \A k \in 1..Len(ai_result.evaluation.minmax) : ai_result.evaluation.minmax[k] < 0

\* the entries of a list of options whose weight is the largest of the list
Heaviest(options) ==
    {k \in 1..Len(options) :
        \A l \in 1..Len(options) : ~Greater(options[l].weight, options[k].weight)}

\* C27: on a list of one move or more whose weights are not negative,
\* best_move_from_vec returns a move whose weight is the largest of the
\* list; the list it draws from holds every move of the largest weight once
\* and no other move.
C27_BestMoveIsHeaviest ==
    (/\ ai.kind = "None"
     /\ ai_result.kind \in {"Some", "panic"}
     /\ Len(ai_result.evaluation.options) >= 1
     /\ \A k \in 1..Len(ai_result.evaluation.options) :
           ai_result.evaluation.options[k].weight.num >= 0) =>
        LET options == ai_result.evaluation.options
            found == best_moves_found(options, 1, Ratio(0, 1), <<>>)
        IN /\ ai_result.kind = "Some"
           /\ Len(found) = Cardinality(Heaviest(options))
           /\ \A k \in Heaviest(options) :
                 \E i \in 1..Len(found) :
                    found[i] = Move(options[k].pawn_index, options[k].direction)
           /\ \E i \in 1..Len(found) : ai_result.move = found[i]

\* the move was drawn from two moves of the largest weight, written as
\* different quotients, after a lighter move and before another
C27_Witness ==
    /\ ai.kind = "None"
    /\ ai_result.kind = "Some"
    /\ Len(ai_result.evaluation.options) = 3
    /\ Heaviest(ai_result.evaluation.options) = {1, 3}
    /\ ai_result.evaluation.options[1].weight # ai_result.evaluation.options[3].weight
    /\ ai_result.evaluation.options[2].weight.num >= 0

\* how many times move is in the list found
Times(found, move) == Cardinality({i \in 1..Len(found) : found[i] = move})

\* C28: the list from which best_move of the standalone MinMax draws its
\* move holds every move of the origin of the largest minimax value once.
C28_StandaloneCandidatesOnce ==
    (ai.kind = "StandaloneMinMax" /\ ai_result.kind = "Some") =>
        LET minmax == ai_result.evaluation.minmax
            es == edges(ai, board, 0)
        IN \A k \in 1..Len(es) :
              (\A l \in 1..Len(es) : minmax[k] >= minmax[l]) =>
                  Times(ai_result.evaluation.candidates,
                        Move(es[k].pawn_index, es[k].direction)) = 1

\* C29: minmax_score on a node without children returns the node's own
\* score, also when depth_remaining is not 0: the value of a move of the
\* origin whose board has no children is the score of that board, and no
\* value of a move is isize::MIN or isize::MAX.
C29_ChildlessNodeScoresItself ==
    (MinMaxAnswered /\ ai.depth >= 1) =>
        LET minmax == ai_result.evaluation.minmax
            es == edges(ai, board, 0)
        IN \A k \in 1..Len(es) :
              /\ minmax[k] \in -100..100
              /\ edges(ai, es[k].board, 1) = <<>> =>
                    minmax[k] = score_board(es[k].board, ai.color, 1)

\* a search of depth 2 or more with a move of the origin that wins at once:
\* its node has no children while depth_remaining is 1 or more
C29_Witness ==
    /\ MinMaxAnswered
    /\ ai.depth >= 2
    /\ \E k \in 1..Len(ai_result.evaluation.minmax) :
          /\ winner(edges(ai, board, 0)[k].board) = ai.color
          /\ ai_result.evaluation.minmax[k] = 99

\* the edges of g that end in node n
Incoming(g, n) == {k \in 1..Len(g.edges) : g.edges[k].target = n}

\* g is a tree under node 1: the origin has no incoming edge, every other
\* node has one, from a node added before it; the move of that edge made on
\* the parent's board gives the child's board, and the child has the other
\* color than its parent
IsTree(g) ==
    /\ Len(g.nodes) >= 1 => Incoming(g, 1) = {}
    /\ \A n \in 2..Len(g.nodes) :
          /\ Cardinality(Incoming(g, n)) = 1
          /\ \A k \in Incoming(g, n) :
                /\ g.edges[k].source \in 1..(n - 1)
                /\ move_pawn_until_blocked(g.nodes[g.edges[k].source].board,
                                           g.edges[k].pawn_index, g.edges[k].direction)
                       = [board |-> g.nodes[n].board, ok |-> TRUE]
                /\ g.nodes[n].color = other_color(g.nodes[g.edges[k].source].color)
    /\ \A k \in 1..Len(g.edges) : g.edges[k].target \in 2..Len(g.nodes)

\* h holds every node and every edge of g, at the same index, with the same
\* board, color and ends
Extends(g, h) ==
    /\ Len(h.nodes) >= Len(g.nodes)
    /\ Len(h.edges) >= Len(g.edges)
    /\ \A n \in 1..Len(g.nodes) :
          /\ h.nodes[n].board = g.nodes[n].board
          /\ h.nodes[n].color = g.nodes[n].color
    /\ \A k \in 1..Len(g.edges) : h.edges[k] = g.edges[k]

\* C30: after every step of a search the graph is a tree under the origin:
\* one incoming edge for every other node, whose move leads from the
\* parent's board to the child's board, colors alternating; during the
\* search nodes and edges are added and none is removed.
C30_GraphIsAGrowingTree ==
    [][/\ IsTree(graph')
       /\ Searching => Extends(graph, graph')]_vars

\* the tree has a node with two children and a node at depth 2
C30_Witness ==
    /\ Iterated
    /\ LastIteration.expands
    /\ Len(ChainSeq(graph, LastIteration.node_index)) = 3
    /\ \E n \in 1..Len(graph.nodes) : Len(Outgoing(graph, n)) >= 2

(***************************************************************************)
(* Claims about whole games.                                               *)
(***************************************************************************)
\* the last call was a successful move_pawn_until_blocked
Moved == last_call = Call("move", TRUE)

\* C31: in a game from the start position at most one color is aligned;
\* the game is over exactly when a color is aligned, winner() reports that
\* color, it is the color whose turn it was and whose pawn made the last
\* move, and testing Yellow before Green would report the same.
C31_WinnerIsLastMover ==
    /\ ~(ColorAligned(board, Green) /\ ColorAligned(board, Yellow))
    /\ \A color \in Colors : ColorAligned(board, color) <=> winner(board) = color
    /\ winner(board) = winner_yellow_first(board)
    /\ (board.next_player = None) <=> (winner(board) # None)
    /\ (Moved /\ board.next_player = None) =>
          /\ winner(board) = prev_board.next_player
          /\ winner(board) = PawnAt(board, last_move.pawn_index).color

\* a game that Yellow, the color winner() tests last, has just won
C31_Witness ==
    /\ Moved
    /\ board.next_player = None
    /\ winner(board) = Yellow
    /\ prev_board.next_player = Yellow

\* the pawns of a color on a board
PawnsOf(b, color) == {i \in PawnIndices(b) : PawnAt(b, i).color = color}
ThreeOfEach(b) == \A color \in Colors : Cardinality(PawnsOf(b, color)) = 3

\* a differs from b in the position of the pawn pawn_index and in
\* next_player, and in nothing else
OnlyPawnMoved(b, a, pawn_index) ==
    /\ a.number_of_rows = b.number_of_rows
    /\ a.number_of_columns = b.number_of_columns
    /\ Len(a.pawns) = Len(b.pawns)
    /\ \A i \in PawnIndices(b) :
          /\ PawnAt(a, i).color = PawnAt(b, i).color
          /\ i # pawn_index => PawnAt(a, i).position = PawnAt(b, i).position
    /\ PawnAt(a, pawn_index).position # PawnAt(b, pawn_index).position
    /\ a.next_player # b.next_player

\* C32: a successful move_pawn_until_blocked(p, d) changes the position of
\* pawn p and next_player and nothing else of the board; a failed call and
\* a listing of the moves change nothing; every board of a game has three
\* Green and three Yellow pawns.
C32_MoveChangesOnePawn ==
    /\ ThreeOfEach(board)
    /\ [][/\ last_call' = Call("move", TRUE) => OnlyPawnMoved(board, board', last_move'.pawn_index)
          /\ last_call' # Call("move", TRUE) => board' = board
          /\ ThreeOfEach(board')]_vars

\* a successful move that passed the turn
C32_Witness ==
    /\ Moved
    /\ OnlyPawnMoved(prev_board, board, last_move.pawn_index)
    /\ board.next_player = other_color(prev_board.next_player)
    /\ number_moves = MaxMoves

\* the last call listed the moves of the live board
Listed == last_call.op = "list"

\* the node MCTSNode::new builds for the live board from the moves listed
ListedNode == MCTSNode(board, Green, valid_moves, 0)

\* C33: a board of a game whose next_player is Some has a legal move for
\* that player: the list random_rollout draws from is not empty, and a
\* node that is not terminal starts with an untried action, so that it is
\* fully expanded only once it has an outgoing edge for best_child.
C33_PlayerToMoveHasAMove ==
    Listed =>
        /\ board.next_player # None => valid_moves # <<>>
        /\ ~is_terminal(ListedNode) => ~is_fully_expanded(ListedNode)

\* the moves of an unfinished board three plies into a game were listed,
\* and one of them ends the game
C33_Witness ==
    /\ Listed
    /\ number_moves = MaxMoves
    /\ board.next_player # None
    /\ valid_moves # <<>>
    /\ \E k \in 1..Len(valid_moves) : valid_moves[k].board.next_player = None

\* the visits of the children of node n
ChildVisits(g, n) == SumVisits(g, Outgoing(g, n), 1)

\* C34: after every completed iteration of a search every node below the
\* origin has a visit; such a node has one visit more than its children
\* together when its board is not terminal, and no child when it is; the
\* origin has as many visits as its children together.
C34_VisitsAddUp ==
    graph # EmptyGraph =>
        /\ \A n \in 2..Len(graph.nodes) :
              /\ graph.nodes[n].visits >= 1
              /\ IF is_terminal(graph.nodes[n])
                 THEN Outgoing(graph, n) = <<>>
                 ELSE graph.nodes[n].visits = 1 + ChildVisits(graph, n)
        /\ graph.nodes[1].visits = ChildVisits(graph, 1)

\* a node below the origin that is not terminal has a child and two visits
C34_Witness ==
    /\ Iterated
    /\ \E n \in 2..Len(graph.nodes) :
          /\ ~is_terminal(graph.nodes[n])
          /\ Outgoing(graph, n) # <<>>
          /\ graph.nodes[n].visits >= 2

(***************************************************************************)
(* SpecRollout: one random_rollout of the MCTS engine, move by move, from  *)
(* the node of a board of a game.  board is current_board; the node is the *)
(* only node of graph.  The model follows MaxRollout moves of the loop.    *)
(***************************************************************************)
\* the indices floor(O::random() * len) and len itself, 1-based
RolloutDrawInclusive(all_possible_moves) == 1..(Len(all_possible_moves) + 1)

\* the indices floor(O::random() * len) can give, 1-based
RolloutDraw(all_possible_moves) == 1..Len(all_possible_moves)

Rolling == ai_result.kind = "rolling"
RolledOut == ai_result.kind = "rollout"

InitRollout ==
    /\ board \in EngineRoots
    /\ ai = MCTS(Green, 4, TRUE)
    /\ \E player_color \in Colors :
          graph = [nodes |-> <<MCTSNode(board, player_color, Untried(board, 0), 0)>>,
                   edges |-> <<>>]
    /\ ai_result = Result("rolling", NoMove, TRUE, NoEvaluation)
    /\ iterations = 0
    /\ RulesIdle
    /\ UiIdle

\* one turn of the loop: the moves of current_board are listed, one is
\* drawn and its board becomes current_board; an index outside the list
\* aborts
RolloutStep ==
    /\ Rolling
    /\ board.next_player # None
    /\ number_moves < MaxRollout
    /\ \E all_possible_moves \in {get_all_valid_directions_and_resulting_boards(board)} :
       \E random_move_index \in RolloutDraw(all_possible_moves) :
          IF random_move_index > Len(all_possible_moves)
          THEN /\ ai_result' = Result("panic", NoMove, TRUE, NoEvaluation)
               /\ UNCHANGED <<board, prev_board, last_move, number_moves>>
          ELSE /\ board' = all_possible_moves[random_move_index].board
               /\ prev_board' = board
               /\ last_move' = Move(all_possible_moves[random_move_index].pawn_index,
                                    all_possible_moves[random_move_index].direction)
               /\ number_moves' = number_moves + 1
               /\ UNCHANGED ai_result
    /\ UNCHANGED <<last_call, valid_moves, positions_in, aligned_out, ai, graph, iterations, uivars>>

\* the loop is left: winner().unwrap() is compared with the color of the node
RolloutEnd ==
    /\ Rolling
    /\ board.next_player = None
    /\ ai_result' = IF winner(board) = None
                    THEN Result("panic", NoMove, TRUE, NoEvaluation)
                    ELSE Result("rollout", NoMove, TRUE,
                                [winner |-> IF winner(board) = graph.nodes[1].color
                                            THEN WinUnit ELSE 0])
    /\ UNCHANGED <<board, ai, graph, iterations, rulesvars, uivars>>

NextRollout == RolloutStep \/ RolloutEnd

SpecRollout == InitRollout /\ [][NextRollout]_vars

\* a game from b can be over after d moves or fewer
RECURSIVE CanEndWithin(_, _)
CanEndWithin(b, d) ==
    \/ b.next_player = None
    \/ /\ d > 0
       /\ LET all == get_all_valid_directions_and_resulting_boards(b)
          IN \E k \in 1..Len(all) : CanEndWithin(all[k].board, d - 1)

MoveArrives == inbox # <<>> /\ inbox[1].msg = "AiMoveReady"

\* C36: whenever an AiMoveReady message changes the live board, the live
\* board is the board its task copied when AiShouldPlay spawned it, and the
\* App still has the engine the task was spawned for (the game was not
\* restarted in between).
C36_MoveAppliedToItsSnapshot ==
    [][(MoveArrives /\ board' # board) =>
          /\ board = inbox[1].task.board
          /\ ui.ai = AiType(inbox[1].task.ai.kind, inbox[1].task.ai.color)]_vars

\* C37: the position value give_all_options of a MinMax engine returns is
\* the largest minimax value of the moves of the root, divided by 100; it
\* is negative when every move of the root has a negative value.
C37_BoardEvalIsBestValue ==
    (MinMaxAnswered /\ ai_result.evaluation.minmax # <<>>) =>
        LET minmax == ai_result.evaluation.minmax
            best == MaxSeq(minmax, 2, minmax[1])
        IN /\ Same(ai_result.evaluation.board_eval, Ratio(best, 100))
           /\ (\A k \in 1..Len(minmax) : minmax[k] < 0) =>
                  Greater(Ratio(0, 1), ai_result.evaluation.board_eval)

(***************************************************************************)
(* SpecTraining: one game of ANNTrainer::training_loop                     *)
(* (src/src/ai/ann/train/mod.rs).  The engines are whatever returns a       *)
(* legal move of the board: one of its first MaxPicks moves.  ai_result     *)
(* holds the locals of the loop: board_hashes and the boards of to_feed.    *)
(***************************************************************************)
\* the words #[derive(Hash)] feeds the hasher for a Board: the two
\* dimensions, the length of pawns, the color, row and column of every
\* pawn, the discriminant of next_player and its color
ColorWord(color) == IF color = Yellow THEN 0 ELSE 1
PawnWord(b, k) ==
    CASE (k - 1) % 3 = 0 -> ColorWord(b.pawns[((k - 1) \div 3) + 1].color)
      [] (k - 1) % 3 = 1 -> b.pawns[((k - 1) \div 3) + 1].position.row
      [] OTHER -> b.pawns[((k - 1) \div 3) + 1].position.column
BoardWords(b) ==
    <<b.number_of_rows, b.number_of_columns, Len(b.pawns)>>
    \o [k \in 1..(3 * Len(b.pawns)) |-> PawnWord(b, k)]
    \o (IF b.next_player = None THEN <<0>> ELSE <<1, ColorWord(b.next_player)>>)

\* the hasher: the 64-bit DefaultHasher with its fixed keys stands as a
\* 20-bit polynomial hash of the same words
RECURSIVE HashAll(_, _, _)
HashAll(words, k, state) ==
    IF k > Len(words) THEN state
    ELSE HashAll(words, k + 1, (state * 31 + words[k] + 1) % 1048576)

get_hash(b) == HashAll(BoardWords(b), 1, 0)

\* the tests after a move of the loop of src/src/ai/ann/train.rs: the move
\* count only
loop_exit_without_hashes(moves_made, new_hash, hashes) ==
    IF moves_made > MoveLimit THEN "draw_moves" ELSE "playing"

\* the tests after a move: the move count, then the insert of the hash of
\* the new board
loop_exit(moves_made, new_hash, hashes) ==
    IF moves_made > MoveLimit THEN "draw_moves"
    ELSE IF new_hash \in hashes THEN "draw_hash"
    ELSE "playing"

ANNTrainer(has_opponent) ==
    [kind |-> "ANNTrainer", color |-> Green, depth |-> 6, has_opponent |-> has_opponent]

\* boards random_board can return
TrainingRoots == {default_new, CrowdedBoard, WinningBoard}

Playing == ai_result.kind = "playing"

InitTraining ==
    /\ board \in TrainingRoots
    /\ ai \in {ANNTrainer(has_opponent) : has_opponent \in BOOLEAN}
    /\ ai_result = Result("playing", NoMove, FALSE,
                          [board_hashes |-> {get_hash(board)}, to_feed |-> <<>>])
    /\ graph = EmptyGraph
    /\ iterations = 0
    /\ RulesIdle
    /\ UiIdle

\* one turn of the loop: an engine gives its options and picks a move, the
\* board before the move is pushed on to_feed, the move is committed and
\* counted, and the two tests of a draw follow; in self-play the engine
\* takes the color of the player to move
TrainingMove ==
    /\ Playing
    /\ winner(board) = None
    /\ \E possible_moves \in {get_all_valid_directions_and_resulting_boards(board)} :
          IF possible_moves = <<>>
          THEN /\ ai_result' = [ai_result EXCEPT !.kind = "panic"]
               /\ UNCHANGED <<board, ai, prev_board, last_move, number_moves>>
          ELSE \E pick \in 1..Min(Len(possible_moves), MaxPicks) :
               \E moved \in {move_pawn_until_blocked(board, possible_moves[pick].pawn_index,
                                                     possible_moves[pick].direction)} :
                  /\ board' = moved.board
                  /\ prev_board' = board
                  /\ last_move' = Move(possible_moves[pick].pawn_index,
                                       possible_moves[pick].direction)
                  /\ ai' = IF board.next_player # ai.color /\ ~ai.has_opponent
                           THEN [ai EXCEPT !.color = other_color(@)]
                           ELSE ai
                  /\ IF ~moved.ok
                     THEN /\ ai_result' = [ai_result EXCEPT !.kind = "panic"]
                          /\ UNCHANGED number_moves
                     ELSE /\ number_moves' = number_moves + 1
                          /\ ai_result' =
                                Result(loop_exit(number_moves + 1, get_hash(moved.board),
                                                 ai_result.evaluation.board_hashes),
                                       last_move', TRUE,
                                       [board_hashes |->
                                            IF number_moves + 1 > MoveLimit
                                            THEN ai_result.evaluation.board_hashes
                                            ELSE ai_result.evaluation.board_hashes
                                                 \cup {get_hash(moved.board)},
                                        to_feed |-> Append(ai_result.evaluation.to_feed, board)])
    /\ UNCHANGED <<last_call, valid_moves, positions_in, aligned_out, graph, iterations, uivars>>

\* the test at the head of the loop fails: the board has a winner
GameWon ==
    /\ Playing
    /\ winner(board) # None
    /\ ai_result' = [ai_result EXCEPT !.kind = "won"]
    /\ UNCHANGED <<board, ai, graph, iterations, rulesvars, uivars>>

NextTraining == TrainingMove \/ GameWon

SpecTraining == InitTraining /\ [][NextTraining]_vars

\* the boards the game stood on before the live board, oldest first
EarlierBoards == ai_result.evaluation.to_feed

\* C38: a game of training_loop commits at most MoveLimit + 1 moves (256
\* in the source); it goes on only while the board has no winner, the move
\* count is not above the limit and the game never stood on the board
\* before; it ends as a draw exactly when the count exceeds the limit or
\* the hash of the new board is the hash of an earlier board, and a game
\* that is back on an earlier board is over, as one draw or the other (the
\* count is tested first); no game aborts.
C38_GameEndsWithinLimit ==
    ai.kind = "ANNTrainer" =>
        /\ ai_result.kind \in {"playing", "won", "draw_moves", "draw_hash"}
        /\ number_moves <= MoveLimit + 1
        /\ Len(EarlierBoards) = number_moves
        /\ Playing =>
              /\ number_moves <= MoveLimit
              /\ \A k \in 1..Len(EarlierBoards) : EarlierBoards[k] # board
        /\ \A k \in 1..Len(EarlierBoards) : winner(EarlierBoards[k]) = None
        /\ ai_result.kind = "won" => winner(board) # None
        /\ ai_result.kind = "draw_moves" <=> number_moves = MoveLimit + 1
        /\ ai_result.kind = "draw_hash" =>
              \E k \in 1..Len(EarlierBoards) : get_hash(EarlierBoards[k]) = get_hash(board)
        /\ \A k \in 1..Len(EarlierBoards) :
              EarlierBoards[k] = board => ai_result.kind \in {"draw_hash", "draw_moves"}

\* a game that came back to a board it stood on before and was stopped
C38_Witness ==
    /\ ai.kind = "ANNTrainer"
    /\ ai_result.kind = "draw_hash"
    /\ number_moves <= MoveLimit
    /\ \E k \in 1..Len(EarlierBoards) : EarlierBoards[k] = board
====
